---- MODULE Spec2Model ----
(***************************************************************************)
(* Model of the match-tracker tool of tft-mcp-server                       *)
(* (src/src/tools/tracker.ts, src/src/datadragon.ts), of the download of   *)
(* a tracker file (fetchTrackerData), of the LP history tool               *)
(* (handleTftLPHistory) and of the start-up and tool dispatch of the       *)
(* server (index.ts, constants.ts).                                        *)
(*                                                                         *)
(* Specifications: Spec (one invocation of the tracker handler),           *)
(* RepeatSpec (the handler invoked again), ConcurrentSpec (two invocations *)
(* in flight), FetchSpec (fetchTrackerData), LPSpec (the LP history) and   *)
(* ServerSpec (start-up and dispatch).  Each one moves its own variables   *)
(* and leaves the others at their initial values.                          *)
(*                                                                         *)
(* JavaScript values are encoded as follows.                               *)
(*   - an optional property is a sequence: <<>> when the property is       *)
(*     absent (undefined), <<v>> when it is present with value v;          *)
(*   - a string is a sequence of tokens (one or more characters each), so  *)
(*     that parseInt, toLowerCase and the regular expressions of the code  *)
(*     are computed on the text and not assumed;                           *)
(*   - a number that may be NaN is a record [nan, n];                      *)
(*   - an object whose keys are iterated (board_pieces, units, ...) is the *)
(*     sequence of its values in Object.values order.                      *)
(***************************************************************************)
EXTENDS Integers, Sequences, FiniteSets, TLC

VARIABLES
    pc,             \* position of the handleTftMatchTracker invocation
    params,         \* the arguments of the invocation: matchId, mode
    championsCache, \* datadragon.ts championsCache: lower-cased apiName -> name
    itemsCache,     \* datadragon.ts itemsCache: lower-cased apiName -> name
    appMatch,       \* the app_matches entry found for the match, once found
    profile,        \* the profile returned by fetchMetaTFTProfile, once fetched
    trackerData,    \* the envelope returned by fetchTrackerData, once fetched
    result,         \* the value the handler returned, once done
    earlier,        \* the invocations that returned before the current one
    calls,          \* two invocations in flight at once: their local variables
    s3Response,     \* fetchTrackerData: the response of the storage, once arrived
    fetched,        \* fetchTrackerData: its position and its outcome
    riot,           \* the matches the player has played, oldest first
    historyFile,    \* the LP history file of the player, absent or its content
    lpReply,        \* what handleTftLPHistory returned last
    cli,            \* the command line of the server: tag line and --region
    serverArgs,     \* the arguments kept by setArgs, once the server started
    toolReply       \* the reply to the last ListTools or CallTool request

\* The variables of one handleTftMatchTracker invocation and the name caches.
trackerVars == <<pc, params, championsCache, itemsCache, appMatch, profile, trackerData,
                 result, earlier>>
fetchVars == <<s3Response, fetched>>
lpVars == <<riot, historyFile, lpReply>>
serverVars == <<cli, serverArgs, toolReply>>

vars == <<trackerVars, calls, fetchVars, lpVars, serverVars>>

----------------------------------------------------------------------------
(* Bounds of the model.                                                    *)

\* Largest number of stage records in a stage_data array.
MaxStages == 3

----------------------------------------------------------------------------
(* Optional values, numbers and strings.                                   *)

None == <<>>
Some(v) == <<v>>
IsSome(o) == Len(o) > 0
Get(o) == o[1]

NaN == [nan |-> TRUE, n |-> 0]
Num(i) == [nan |-> FALSE, n |-> i]

\* JavaScript truthiness of a number: NaN and 0 are falsy.
NumTruthy(x) == ~x.nan /\ x.n # 0

\* `x || d` for a number x and an integer default d.
NumOr(x, d) == IF NumTruthy(x) THEN x.n ELSE d

DigitVal ==
    [c \in {"0", "1", "2", "3", "4", "5", "6", "7", "8", "9"} |->
        CASE c = "0" -> 0 [] c = "1" -> 1 [] c = "2" -> 2 [] c = "3" -> 3
          [] c = "4" -> 4 [] c = "5" -> 5 [] c = "6" -> 6 [] c = "7" -> 7
          [] c = "8" -> 8 [] c = "9" -> 9]

IsDigit(c) == c \in DOMAIN DigitVal

RECURSIVE SkipSpaces(_)
SkipSpaces(s) ==
    IF s # <<>> /\ Head(s) = " " THEN SkipSpaces(Tail(s)) ELSE s

RECURSIVE ParseDigits(_, _)
ParseDigits(s, acc) ==
    IF s = <<>> \/ ~IsDigit(Head(s)) THEN acc
    ELSE ParseDigits(Tail(s), acc * 10 + DigitVal[Head(s)])

\* parseInt(string) with radix 10 on a string of one-character tokens: leading
\* white space is skipped, an optional sign is read, then the longest run of
\* digits; NaN when no digit is found.
parseIntStr(s) ==
    LET t == SkipSpaces(s)
        signed == t # <<>> /\ Head(t) \in {"-", "+"}
        u == IF signed THEN Tail(t) ELSE t
        mag == ParseDigits(u, 0)
    IN  IF u = <<>> \/ ~IsDigit(Head(u)) THEN NaN
        ELSE IF signed /\ Head(t) = "-" THEN Num(0 - mag) ELSE Num(mag)

\* parseInt of an optional string property: parseInt(undefined) is NaN.
parseInt(o) == IF IsSome(o) THEN parseIntStr(Get(o)) ELSE NaN

\* `s || d` for an optional string s: undefined and "" are falsy.
StrOr(o, d) == IF IsSome(o) /\ Get(o) # <<>> THEN Get(o) ELSE d

----------------------------------------------------------------------------
(* Name resolution (datadragon.ts).                                        *)

\* String.prototype.toLowerCase, token by token.
LowerToken(t) ==
    CASE t = "TFT" -> "tft"
      [] t = "Item" -> "item"
      [] t = "Ahri" -> "ahri"
      [] t = "Lux" -> "lux"
      [] t = "Miss" -> "miss"
      [] t = "Fortune" -> "fortune"
      [] t = "Guinsoos" -> "guinsoos"
      [] t = "Rageblade" -> "rageblade"
      [] t = "Training" -> "training"
      [] t = "Dummy" -> "dummy"
      [] OTHER -> t

toLowerCase(s) == [i \in 1..Len(s) |-> LowerToken(s[i])]

\* Tokens matched by \d+ and by [A-Z] at their first character.
DigitTokens == {"1", "15", "16"}
CapitalTokens ==
    {"TFT", "Item", "Ahri", "Lux", "Miss", "Fortune", "Guinsoos", "Rageblade",
     "Training", "Dummy"}

\* Identifiers and display names used by the inputs.
TFT16_Ahri == <<"TFT", "16", "_", "Ahri">>
TFT16_Lux == <<"TFT", "16", "_", "Lux">>
TFT16_MissFortune == <<"TFT", "16", "_", "Miss", "Fortune">>
BareAhri == <<"Ahri">>
\* An identifier without a set number: no cache entry, no /TFT\d+_/ prefix.
TFT_TrainingDummy == <<"TFT", "_", "Training", "Dummy">>
TFT_Item_GuinsoosRageblade == <<"TFT", "_", "Item", "_", "Guinsoos", "Rageblade">>

\* The caches after initializeDataDragon: empty when the download failed,
\* filled from the downloaded set otherwise.
EmptyCache == [k \in {} |-> <<>>]
LoadedChampions ==
    [k \in {toLowerCase(TFT16_MissFortune), toLowerCase(TFT16_Lux)} |->
        IF k = toLowerCase(TFT16_Lux) THEN <<"Lux">> ELSE <<"Miss", " ", "Fortune">>]
LoadedItems ==
    [k \in {toLowerCase(TFT_Item_GuinsoosRageblade)} |-> <<"Guinsoo's", " ", "Rageblade">>]

\* apiName.match(/TFT\d+_(.+)/): the least position of a match, 0 when none.
RECURSIVE ChampionPrefixAt(_, _)
ChampionPrefixAt(s, i) ==
    IF i + 3 > Len(s) THEN 0
    ELSE IF s[i] = "TFT" /\ s[i + 1] \in DigitTokens /\ s[i + 2] = "_" THEN i
    ELSE ChampionPrefixAt(s, i + 1)

\* getChampionName on a defined string.
getChampionNameStr(cache, apiName) ==
    LET key == toLowerCase(apiName)
        at == ChampionPrefixAt(apiName, 1)
    IN  IF key \in DOMAIN cache THEN cache[key]
        ELSE IF at > 0 THEN SubSeq(apiName, at + 3, Len(apiName))
        ELSE apiName

\* getChampionName(undefined) throws: undefined has no toLowerCase.
getChampionNameThrows(name) == ~IsSome(name)
getChampionName(cache, name) == getChampionNameStr(cache, Get(name))

\* apiName.match(/TFT_Item_(.+)/): the least position of a match, 0 when none.
RECURSIVE ItemPrefixAt(_, _)
ItemPrefixAt(s, i) ==
    IF i + 4 > Len(s) THEN 0
    ELSE IF s[i] = "TFT" /\ s[i + 1] = "_" /\ s[i + 2] = "Item" /\ s[i + 3] = "_" THEN i
    ELSE ItemPrefixAt(s, i + 1)

\* match[1].replace(/([A-Z])/g, ' $1').trim()
RECURSIVE SpaceCapitals(_)
SpaceCapitals(s) ==
    IF s = <<>> THEN <<>>
    ELSE IF Head(s) \in CapitalTokens THEN <<" ", Head(s)>> \o SpaceCapitals(Tail(s))
    ELSE <<Head(s)>> \o SpaceCapitals(Tail(s))

RECURSIVE TrimEnd(_)
TrimEnd(s) ==
    IF s # <<>> /\ s[Len(s)] = " " THEN TrimEnd(SubSeq(s, 1, Len(s) - 1)) ELSE s

trim(s) == TrimEnd(SkipSpaces(s))

\* getItemName on a defined string (extractItems passes only truthy items).
getItemName(cache, apiName) ==
    LET key == toLowerCase(apiName)
        at == ItemPrefixAt(apiName, 1)
    IN  IF key \in DOMAIN cache THEN cache[key]
        ELSE IF at > 0 THEN trim(SpaceCapitals(SubSeq(apiName, at + 4, Len(apiName))))
        ELSE apiName

----------------------------------------------------------------------------
(* Stage records (TrackerStage) and their normalisation (tracker.ts).       *)
(*                                                                         *)
(* A stage element of the decoded array is NullStage (JSON null) or an     *)
(* object [t |-> "object", round_type, me, gold_earned, rerolls,           *)
(* board_pieces, bench_pieces, units, shop_pieces], every property         *)
(* optional.  round_type stands for match_info.round_type, board_pieces    *)
(* for board.board_pieces, bench_pieces for bench.bench_pieces, units for  *)
(* local_player_damage.units and shop_pieces for the shop_pieces of the    *)
(* last element of shops.  The properties the handler copies verbatim      *)
(* (opponent, roster, metrics, round_outcome) are not modelled.            *)

NullStage == [t |-> "null"]
Null == [t |-> "null"]

\* extractItems: the truthy ones among item_1, item_2, item_3, in that order.
extractItems(piece) ==
    LET slot(o) == IF IsSome(o) /\ Get(o) # <<>> THEN <<Get(o)>> ELSE <<>>
    IN  slot(piece.item_1) \o slot(piece.item_2) \o slot(piece.item_3)

\* stages[idx] for a 0-based idx: undefined outside the array.
StageAt(stages, idx) ==
    IF idx >= 0 /\ idx < Len(stages) THEN Some(stages[idx + 1]) ELSE None

\* `u.damage && u.damage > 0`
PositiveDamage(u) == IsSome(u.damage) /\ Get(u.damage) > 0

NamelessIn(pieces) == \E i \in 1..Len(pieces) : getChampionNameThrows(pieces[i].name)

\* Array.prototype.sort((a, b) => b.damage - a.damage): stable, descending.
RECURSIVE InsertByDamage(_, _)
InsertByDamage(x, s) ==
    IF s = <<>> THEN <<x>>
    ELSE IF Get(x.damage) > Get(Head(s).damage) THEN <<x>> \o s
    ELSE <<Head(s)>> \o InsertByDamage(x, Tail(s))

RECURSIVE SortByDamage(_)
SortByDamage(s) ==
    IF s = <<>> THEN <<>>
    ELSE InsertByDamage(s[Len(s)], SortByDamage(SubSeq(s, 1, Len(s) - 1)))

\* A board entry that carries the identifier of the piece as it arrived.
FormatBoardPieceRawName(champs, items, u) ==
    [champion |-> Get(u.name),
     stars |-> NumOr(parseInt(u.level), 1),
     items |-> [i \in 1..Len(extractItems(u)) |-> getItemName(items, extractItems(u)[i])]]

\* The board entry built at tracker.ts 222-226 and 462-466.
FormatBoardPiece(champs, items, u) ==
    [champion |-> getChampionName(champs, u.name),
     stars |-> NumOr(parseInt(u.level), 1),
     items |-> [i \in 1..Len(extractItems(u)) |-> getItemName(items, extractItems(u)[i])]]

\* The snapshot built with `stage.board.board_pieces`, without the `?.`: a
\* stage without board throws.
formatStageDataThrowsWithoutBoard(stages, stageIndex) ==
    LET so == StageAt(stages, stageIndex)
    IN  /\ IsSome(so)
        /\ Get(so).t = "object"
        /\ \/ ~IsSome(Get(so).board_pieces)
           \/ NamelessIn(Get(Get(so).board_pieces))

\* formatStageData throws when getChampionName receives an absent name.
formatStageDataThrows(stages, stageIndex) ==
    LET so == StageAt(stages, stageIndex)
    IN  /\ IsSome(so)
        /\ Get(so).t = "object"
        /\ LET stage == Get(so)
           IN  \/ IsSome(stage.board_pieces) /\ NamelessIn(Get(stage.board_pieces))
               \/ IsSome(stage.bench_pieces) /\ NamelessIn(Get(stage.bench_pieces))
               \/ IsSome(stage.units)
                    /\ NamelessIn(SelectSeq(Get(stage.units), PositiveDamage))
               \/ IsSome(stage.shop_pieces) /\ NamelessIn(Get(stage.shop_pieces))

formatStageData(champs, items, stages, stageIndex) ==
    LET so == StageAt(stages, stageIndex)
    IN  IF ~IsSome(so) \/ Get(so).t = "null" THEN Null
        ELSE
          LET stage == Get(so)
              board == IF IsSome(stage.board_pieces) THEN Get(stage.board_pieces) ELSE <<>>
              bench == IF IsSome(stage.bench_pieces) THEN Get(stage.bench_pieces) ELSE <<>>
              units == IF IsSome(stage.units)
                       THEN SortByDamage(SelectSeq(Get(stage.units), PositiveDamage))
                       ELSE <<>>
          IN  [t |-> "object",
               stageNumber |-> stageIndex + 1,
               stage |-> IF IsSome(stage.round_type) THEN Get(stage.round_type).stage ELSE None,
               roundType |-> IF IsSome(stage.round_type) THEN Get(stage.round_type).type ELSE None,
               player |->
                 IF IsSome(stage.me)
                 THEN Some([health |-> NumOr(parseInt(Get(stage.me).health), 0),
                            gold |-> NumOr(parseInt(Get(stage.me).gold), 0),
                            level |-> IF IsSome(Get(stage.me).level)
                                      THEN Get(Get(stage.me).level) ELSE 0])
                 ELSE None,
               goldEarned |-> stage.gold_earned,
               rerolls |-> stage.rerolls,
               board |->
                 IF Len(board) > 0
                 THEN Some([i \in 1..Len(board) |-> FormatBoardPiece(champs, items, board[i])])
                 ELSE None,
               bench |->
                 IF Len(bench) > 0
                 THEN Some([i \in 1..Len(bench) |->
                              [champion |-> getChampionName(champs, bench[i].name),
                               stars |-> NumOr(parseInt(bench[i].level), 1)]])
                 ELSE None,
               unitDamage |->
                 IF Len(units) > 0
                 THEN Some([i \in 1..Len(units) |->
                              [champion |-> getChampionName(champs, units[i].name),
                               damage |-> Get(units[i].damage),
                               stars |-> units[i].level]])
                 ELSE None,
               shop |->
                 IF IsSome(stage.shop_pieces)
                 THEN Some([i \in 1..Len(Get(stage.shop_pieces)) |->
                              getChampionName(champs, Get(stage.shop_pieces)[i].name)])
                 ELSE None]

\* formatAllStages throws on a null element: stage.match_info reads a property
\* of null.
formatAllStagesThrows(stages) == \E i \in 1..Len(stages) : stages[i].t = "null"

formatAllStages(stages) ==
    [i \in 1..Len(stages) |->
        LET stage == stages[i]
        IN  [round |-> i,
             stage |-> IF IsSome(stage.round_type) THEN Get(stage.round_type).stage ELSE None,
             type |-> IF IsSome(stage.round_type) THEN Get(stage.round_type).type ELSE None,
             hp |-> IF IsSome(stage.me)
                    THEN Some(NumOr(parseInt(Get(stage.me).health), 0)) ELSE None,
             gold |-> IF IsSome(stage.me)
                      THEN Some(NumOr(parseInt(Get(stage.me).gold), 0)) ELSE None,
             level |-> IF IsSome(stage.me)
                       THEN Some(IF IsSome(Get(stage.me).level)
                                 THEN Get(Get(stage.me).level) ELSE 0)
                       ELSE None,
             boardSize |-> IF IsSome(stage.board_pieces)
                           THEN Some(Len(Get(stage.board_pieces))) ELSE None,
             income |-> stage.gold_earned,
             rerolls |-> IF IsSome(stage.rerolls) /\ Get(stage.rerolls) > 0
                         THEN stage.rerolls ELSE None]]

----------------------------------------------------------------------------
(* Key-stage selector.                                                     *)

keyRounds == {"2-1", "3-2", "4-2", "5-1", "6-1"}

\* stages[i].match_info?.round_type?.stage of a non-null element.
StageInfo(stage) ==
    IF IsSome(stage.round_type) THEN Get(stage.round_type).stage ELSE None

\* The loop without its `!found.has(stageInfo)` test.
RECURSIVE KeyScanEveryOccurrence(_, _, _, _)
KeyScanEveryOccurrence(stages, i, keyIndices, found) ==
    IF i >= Len(stages) THEN keyIndices
    ELSE
      LET stageInfo == IF IsSome(stages[i + 1].round_type)
                       THEN Get(stages[i + 1].round_type).stage ELSE None
      IN  IF IsSome(stageInfo) /\ Get(stageInfo) \in keyRounds
          THEN KeyScanEveryOccurrence(stages, i + 1, Append(keyIndices, i), found)
          ELSE KeyScanEveryOccurrence(stages, i + 1, keyIndices, found)

\* The loop of findKeyProgressionStages from 0-based index i on.
RECURSIVE KeyScan(_, _, _, _)
KeyScan(stages, i, keyIndices, found) ==
    IF i >= Len(stages) THEN keyIndices
    ELSE
      LET stageInfo == StageInfo(stages[i + 1])
      IN  IF /\ IsSome(stageInfo)
             /\ Get(stageInfo) # ""
             /\ Get(stageInfo) \in keyRounds
             /\ Get(stageInfo) \notin found
          THEN KeyScan(stages, i + 1, Append(keyIndices, i), found \cup {Get(stageInfo)})
          ELSE KeyScan(stages, i + 1, keyIndices, found)

\* The final index pushed without the test on the last selected index.
findKeyProgressionStagesAlwaysPushes(stages) ==
    Append(KeyScan(stages, 0, <<>>, {}), Len(stages) - 1)

findKeyProgressionStages(stages) ==
    LET keyIndices == KeyScan(stages, 0, <<>>, {})
    IN  IF Len(keyIndices) = 0 \/ keyIndices[Len(keyIndices)] # Len(stages) - 1
        THEN Append(keyIndices, Len(stages) - 1)
        ELSE keyIndices

----------------------------------------------------------------------------
(* Carry statistics.                                                       *)

\* Math.max(a, b): NaN when either argument is NaN (undefined converts to NaN).
MathMax(a, b) ==
    IF a.nan \/ b.nan THEN NaN ELSE Num(IF a.n >= b.n THEN a.n ELSE b.n)

\* Math.floor(total / count) in place of the Math.round.
RoundDivTruncates(total, count) == total \div count

\* Math.round(total / count) for total >= 0 and count > 0: halves round up.
RoundDiv(total, count) == (2 * total + count) \div (2 * count)

\* Position of `name` among the keys of damageByUnit, 0 when it is no key.
RECURSIVE KeyIndex(_, _, _)
KeyIndex(acc, name, i) ==
    IF i > Len(acc) THEN 0
    ELSE IF acc[i].name = name THEN i
    ELSE KeyIndex(acc, name, i + 1)

\* The units the two loops of calculateCarryStats visit, in order.
RECURSIVE AllUnits(_)
AllUnits(stages) ==
    IF stages = <<>> THEN <<>>
    ELSE (IF IsSome(Head(stages).units) THEN Get(Head(stages).units) ELSE <<>>)
           \o AllUnits(Tail(stages))

\* The loop body with `maxStars = unit.level` in place of the Math.max.
AccumulateUnitLastLevel(champs, damageByUnit, unit) ==
    IF ~PositiveDamage(unit) THEN damageByUnit
    ELSE
      LET name == getChampionName(champs, unit.name)
          level == IF IsSome(unit.level) THEN Num(Get(unit.level)) ELSE NaN
          at == KeyIndex(damageByUnit, name, 1)
      IN  IF at = 0
          THEN Append(damageByUnit, [name |-> name, total |-> Get(unit.damage),
                                     count |-> 1, maxStars |-> level])
          ELSE [damageByUnit EXCEPT
                  ![at] = [name |-> name, total |-> @.total + Get(unit.damage),
                           count |-> @.count + 1, maxStars |-> level]]

\* The body of the inner loop (tracker.ts 368-376) for one unit; damageByUnit
\* is the sequence of its entries in key insertion order.
AccumulateUnit(champs, damageByUnit, unit) ==
    IF ~PositiveDamage(unit) THEN damageByUnit
    ELSE
      LET name == getChampionName(champs, unit.name)
          level == IF IsSome(unit.level) THEN Num(Get(unit.level)) ELSE NaN
          at == KeyIndex(damageByUnit, name, 1)
          entry == IF at = 0
                   THEN [name |-> name, total |-> 0, count |-> 0, maxStars |-> Num(0)]
                   ELSE damageByUnit[at]
          updated == [name |-> name,
                      total |-> entry.total + Get(unit.damage),
                      count |-> entry.count + 1,
                      maxStars |-> MathMax(entry.maxStars, level)]
      IN  IF at = 0 THEN Append(damageByUnit, updated)
          ELSE [damageByUnit EXCEPT ![at] = updated]

RECURSIVE FoldUnits(_, _, _)
FoldUnits(champs, damageByUnit, units) ==
    IF units = <<>> THEN damageByUnit
    ELSE FoldUnits(champs, AccumulateUnit(champs, damageByUnit, Head(units)), Tail(units))

\* A sort that places an entry before the entries of equal totalDamage.
RECURSIVE InsertByTotalBeforeTies(_, _)
InsertByTotalBeforeTies(x, s) ==
    IF s = <<>> THEN <<x>>
    ELSE IF x.totalDamage >= Head(s).totalDamage THEN <<x>> \o s
    ELSE <<Head(s)>> \o InsertByTotalBeforeTies(x, Tail(s))

\* Array.prototype.sort((a, b) => b.totalDamage - a.totalDamage): stable.
RECURSIVE InsertByTotal(_, _)
InsertByTotal(x, s) ==
    IF s = <<>> THEN <<x>>
    ELSE IF x.totalDamage > Head(s).totalDamage THEN <<x>> \o s
    ELSE <<Head(s)>> \o InsertByTotal(x, Tail(s))

RECURSIVE SortByTotal(_)
SortByTotal(s) ==
    IF s = <<>> THEN <<>>
    ELSE InsertByTotal(s[Len(s)], SortByTotal(SubSeq(s, 1, Len(s) - 1)))

calculateCarryStatsThrows(stages) ==
    NamelessIn(SelectSeq(AllUnits(stages), PositiveDamage))

calculateCarryStats(champs, stages) ==
    LET damageByUnit == FoldUnits(champs, <<>>, AllUnits(stages))
    IN  SortByTotal([i \in 1..Len(damageByUnit) |->
            [champion |-> damageByUnit[i].name,
             totalDamage |-> damageByUnit[i].total,
             avgDamage |-> RoundDiv(damageByUnit[i].total, damageByUnit[i].count),
             roundsPlayed |-> damageByUnit[i].count,
             maxStars |-> damageByUnit[i].maxStars]])

----------------------------------------------------------------------------
(* JSON text of stage_data and its decoding.                               *)
(*                                                                         *)
(* A JavaScript value is [t |-> "undefined"], [t |-> "null"],              *)
(* [t |-> "number", n], [t |-> "string", s], [t |-> "array", a] or a stage *)
(* object.  A text is a sequence of tokens: the brackets and the comma of  *)
(* the array grammar, the JSON text of one scalar or object value, and     *)
(* words that are no JSON at all.                                          *)

Undefined == [t |-> "undefined"]
JNum(n) == [t |-> "number", n |-> n]
JStr(text) == [t |-> "string", s |-> text]
JArr(a) == [t |-> "array", a |-> a]

LBracket == [k |-> "["]
RBracket == [k |-> "]"]
Comma == [k |-> ","]
ValueText(v) == [k |-> "value", v |-> v]
Word(w) == [k |-> "word", w |-> w]

RECURSIVE JoinTexts(_)
JoinTexts(texts) ==
    IF texts = <<>> THEN <<>>
    ELSE IF Len(texts) = 1 THEN texts[1]
    ELSE texts[1] \o <<Comma>> \o JoinTexts(Tail(texts))

\* JSON.stringify of an array of objects and nulls, or of one such value.
JSONstringify(v) ==
    IF v.t = "array"
    THEN <<LBracket>> \o JoinTexts([i \in 1..Len(v.a) |-> <<ValueText(v.a[i])>>])
           \o <<RBracket>>
    ELSE <<ValueText(v)>>

\* The elements of `value (, value)*` from position i on, <<Undefined>> when
\* the text is not of that form.
RECURSIVE ParseElements(_, _)
ParseElements(text, i) ==
    IF i > Len(text) \/ text[i].k # "value" THEN <<Undefined>>
    ELSE IF i = Len(text) THEN <<text[i].v>>
    ELSE IF text[i + 1].k # "," THEN <<Undefined>>
    ELSE LET rest == ParseElements(text, i + 2)
         IN  IF rest = <<Undefined>> THEN rest ELSE <<text[i].v>> \o rest

IsArrayText(text) ==
    /\ Len(text) >= 2
    /\ text[1].k = "["
    /\ text[Len(text)].k = "]"
    /\ \/ Len(text) = 2
       \/ ParseElements(SubSeq(text, 2, Len(text) - 1), 1) # <<Undefined>>

\* JSON.parse throws a SyntaxError on a text that is neither one value nor an
\* array of values.
JSONparseThrows(text) ==
    ~(\/ Len(text) = 1 /\ text[1].k = "value"
      \/ IsArrayText(text))

JSONparse(text) ==
    IF Len(text) = 1 THEN text[1].v
    ELSE IF Len(text) = 2 THEN JArr(<<>>)
    ELSE JArr(ParseElements(SubSeq(text, 2, Len(text) - 1), 1))

\* ToString, which JSON.parse applies to an argument that is no string:
\* "undefined", "null", the digits of a number, "[object Object]", and for an
\* array the texts of its elements joined by commas, null giving "".
RECURSIVE JSToString(_)
JSToString(v) ==
    CASE v.t = "string" -> v.s
      [] v.t = "undefined" -> <<Word("undefined")>>
      [] v.t = "null" -> <<ValueText(Null)>>
      [] v.t = "number" -> <<ValueText(v)>>
      [] v.t = "array" ->
           JoinTexts([i \in 1..Len(v.a) |->
                        IF v.a[i].t \in {"null", "undefined"} THEN <<>>
                        ELSE JSToString(v.a[i])])
      [] OTHER -> <<LBracket, Word("object Object"), RBracket>>

\* A decoder that replaces whatever is no array by the empty array.
ParseStageDataLenient(stage_data) ==
    IF JSONparseThrows(JSToString(stage_data)) THEN JArr(<<>>)
    ELSE IF JSONparse(JSToString(stage_data)).t # "array" THEN JArr(<<>>)
    ELSE JSONparse(JSToString(stage_data))

\* A decoder whose catch block leaves `stages` at its initial value [].
ParseStageDataKeepsInitial(stage_data) ==
    IF JSONparseThrows(JSToString(stage_data)) THEN JArr(<<>>)
    ELSE JSONparse(JSToString(stage_data))

\* tracker.ts 445-451: JSON.parse(stage_data), and stage_data itself when
\* that throws.
ParseStageData(stage_data) ==
    IF JSONparseThrows(JSToString(stage_data)) THEN stage_data
    ELSE JSONparse(JSToString(stage_data))

----------------------------------------------------------------------------
(* handleTftMatchTracker: the synchronous pipeline after the two fetches.  *)

\* Number of carries kept in topCarries.
TopCarries == 5

\* The ranking handed on whole, without the slice.
TopOfRankingUnsliced(carryStats) == carryStats

\* carryStats.slice(0, 5)
TopOfRanking(carryStats) ==
    SubSeq(carryStats, 1, IF Len(carryStats) < TopCarries
                          THEN Len(carryStats) ELSE TopCarries)

\* `mode = "summary"` in the parameter destructuring: the default replaces
\* undefined only.
EffectiveMode(mode) == IF mode = Undefined THEN JStr("summary") ELSE mode

\* `stages[0]` read where the last element is meant.
LastStageIsFirst(stages) == StageAt(stages, 0)

\* stages[0] and stages[stages.length - 1], undefined for the empty array.
FirstStage(stages) == StageAt(stages, 0)
LastStage(stages) == StageAt(stages, Len(stages) - 1)

\* stage?.me?.health and stage?.me?.gold
MeHealth(so) == IF IsSome(so) /\ IsSome(Get(so).me) THEN Get(Get(so).me).health ELSE None
MeGold(so) == IF IsSome(so) /\ IsSome(Get(so).me) THEN Get(Get(so).me).gold ELSE None

\* lastStage?.board?.board_pieces, as a list
LastBoard(stages) ==
    IF IsSome(LastStage(stages)) /\ IsSome(Get(LastStage(stages)).board_pieces)
    THEN Get(Get(LastStage(stages)).board_pieces)
    ELSE <<>>

FinalBoard(champs, items, stages) ==
    [i \in 1..Len(LastBoard(stages)) |-> FormatBoardPiece(champs, items, LastBoard(stages)[i])]

\* `totalRerolls++` in place of the addition: the stages that rerolled.
RECURSIVE TotalRerollsCountsStages(_)
TotalRerollsCountsStages(stages) ==
    IF stages = <<>> THEN 0
    ELSE (IF IsSome(Head(stages).rerolls) /\ Get(Head(stages).rerolls) # 0 THEN 1 ELSE 0)
           + TotalRerollsCountsStages(Tail(stages))

\* `if (stage.rerolls) totalRerolls += stage.rerolls` over all stages.
RECURSIVE TotalRerolls(_)
TotalRerolls(stages) ==
    IF stages = <<>> THEN 0
    ELSE (IF IsSome(Head(stages).rerolls) THEN Get(Head(stages).rerolls) ELSE 0)
           + TotalRerolls(Tail(stages))

RECURSIVE TotalIncome(_)
TotalIncome(stages) ==
    IF stages = <<>> THEN 0
    ELSE (IF IsSome(Head(stages).gold_earned) THEN Get(Head(stages).gold_earned) ELSE 0)
           + TotalIncome(Tail(stages))

\* The mode test lost: every stage is detailed whatever the mode.
ProgressionIndicesAlwaysAll(mode, stages) == [i \in 1..Len(stages) |-> i - 1]

\* The mode test lost the other way: only the key stages are detailed.
ProgressionIndicesAlwaysKey(mode, stages) == findKeyProgressionStages(stages)

\* The indices whose detailed snapshot is emitted (tracker.ts 482-489).
ProgressionIndices(mode, stages) ==
    IF mode = JStr("complete")
    THEN [i \in 1..Len(stages) |-> i - 1]
    ELSE findKeyProgressionStages(stages)

\* The places where the pipeline throws; every one is caught at line 531.
PipelineThrows(mode, td) ==
    \/ td.t # "object"
    \/ LET stages == ParseStageData(td.stage_data)
       IN  \/ stages.t # "array"
           \/ formatAllStagesThrows(stages.a)
           \/ NamelessIn(LastBoard(stages.a))
           \/ calculateCarryStatsThrows(stages.a)
           \/ \E i \in 1..Len(ProgressionIndices(mode, stages.a)) :
                 formatStageDataThrows(stages.a, ProgressionIndices(mode, stages.a)[i])

\* The object serialised at line 526.
AssembledResult(champs, items, matchId, uuid, mode, td) ==
    LET stages == ParseStageData(td.stage_data).a
        indices == ProgressionIndices(mode, stages)
        carryStats == calculateCarryStats(champs, stages)
    IN  [matchId |-> matchId,
         trackerUuid |-> uuid,
         server |-> td.server,
         summonerName |-> td.summoner_name,
         mode |-> mode,
         portal |-> td.portal,
         rank |-> td.summoner_tier,
         set |-> td.tft_set_core_name,
         totalRounds |-> Len(stages),
         summary |->
           [startingHealth |->
              parseIntStr(StrOr(MeHealth(FirstStage(stages)), <<"1", "0", "0">>)),
            finalHealth |-> parseIntStr(StrOr(MeHealth(LastStage(stages)), <<"0">>)),
            finalGold |-> parseIntStr(StrOr(MeGold(LastStage(stages)), <<"0">>)),
            totalRerolls |-> TotalRerolls(stages),
            totalIncome |-> TotalIncome(stages)],
         topCarries |-> TopOfRanking(carryStats),
         finalBoard |-> FinalBoard(champs, items, stages),
         stageProgression |->
           [i \in 1..Len(indices) |-> formatStageData(champs, items, stages, indices[i])],
         roundProgression |->
           IF mode = JStr("summary") THEN Some(formatAllStages(stages)) ELSE None]

ErrorResult(message) == [isError |-> TRUE, body |-> [error |-> message]]

\* The pipeline without the catch of line 531: what it throws rejects the
\* promise.
ProcessTrackerDataUncaught(champs, items, matchId, uuid, mode, td) ==
    IF PipelineThrows(mode, td)
    THEN [rejected |-> "TypeError"]
    ELSE [isError |-> FALSE,
          body |-> AssembledResult(champs, items, matchId, uuid, mode, td)]

\* A pipeline that keeps a count of the invocations and adds it to
\* totalRounds.
ProcessTrackerDataCountsRuns(champs, items, matchId, uuid, mode, td) ==
    IF PipelineThrows(mode, td)
    THEN ErrorResult("TypeError")
    ELSE [isError |-> FALSE,
          body |-> [AssembledResult(champs, items, matchId, uuid, mode, td)
                      EXCEPT !.totalRounds = @ + Len(earlier)]]

\* What the handler returns once the tracker data has arrived.
ProcessTrackerData(champs, items, matchId, uuid, mode, td) ==
    IF PipelineThrows(mode, td)
    THEN ErrorResult("TypeError")
    ELSE [isError |-> FALSE,
          body |-> AssembledResult(champs, items, matchId, uuid, mode, td)]

----------------------------------------------------------------------------
(* Inputs: stage records, envelopes, profiles and parameters.              *)

EmptyStage ==
    [t |-> "object", round_type |-> None, me |-> None, gold_earned |-> None,
     rerolls |-> None, board_pieces |-> None, bench_pieces |-> None,
     units |-> None, shop_pieces |-> None]

Piece(name, level, item_1, item_2, item_3) ==
    [name |-> name, level |-> level, item_1 |-> item_1, item_2 |-> item_2,
     item_3 |-> item_3]

Unit(name, damage, level) == [name |-> name, damage |-> damage, level |-> level]

\* Round 1-1: full health, empty board, two units that dealt no damage.
Stage11 ==
    [EmptyStage EXCEPT
       !.round_type = Some([stage |-> Some("1-1"), type |-> Some("PVE")]),
       !.me = Some([health |-> Some(<<"1", "0", "0">>), gold |-> Some(<<"5">>),
                    level |-> Some(1)]),
       !.gold_earned = Some(0),
       !.rerolls = Some(0),
       !.board_pieces = Some(<<>>),
       !.units = Some(<<Unit(Some(TFT16_Ahri), Some(0), Some(1)),
                        Unit(None, None, None)>>)]

\* Round 2-1: health and gold that are no clean numbers, two identifiers of
\* the same champion, a unit without damage.
Stage21 ==
    [EmptyStage EXCEPT
       !.round_type = Some([stage |-> Some("2-1"), type |-> Some("PVP")]),
       !.me = Some([health |-> Some(<<"a", "b", "c">>), gold |-> Some(<<"1", "2", "a">>),
                    level |-> None]),
       !.gold_earned = Some(5),
       !.rerolls = Some(2),
       !.board_pieces =
          Some(<<Piece(Some(TFT16_Ahri), Some(<<"2">>),
                       Some(TFT_Item_GuinsoosRageblade), None, Some(<<"Bow">>)),
                 Piece(Some(BareAhri), None, None, None, None)>>),
       !.bench_pieces = Some(<<Piece(Some(TFT16_MissFortune), Some(<<"1">>), None, None, None)>>),
       !.units = Some(<<Unit(Some(TFT16_Ahri), Some(100), Some(2)),
                        Unit(Some(TFT16_Lux), None, Some(1)),
                        Unit(Some(BareAhri), Some(51), Some(1))>>),
       !.shop_pieces = Some(<<[name |-> Some(TFT16_Lux)]>>)]

\* Round 3-2: no health left, six units that dealt damage, two of them tied.
Stage32 ==
    [EmptyStage EXCEPT
       !.round_type = Some([stage |-> Some("3-2"), type |-> Some("PVP")]),
       !.me = Some([health |-> Some(<<"0">>), gold |-> Some(<<"3", "0">>),
                    level |-> Some(7)]),
       !.rerolls = Some(1),
       !.board_pieces = Some(<<Piece(Some(TFT16_Lux), Some(<<"3">>), None, None, None)>>),
       !.bench_pieces =
           Some(<<Piece(Some(TFT_TrainingDummy), Some(<<"1">>), None, None, None)>>),
       !.units = Some(<<Unit(Some(TFT16_Lux), Some(50), Some(3)),
                        Unit(Some(TFT16_MissFortune), Some(50), Some(1)),
                        Unit(Some(TFT16_Ahri), Some(60), Some(3)),
                        Unit(Some(<<"Jinx">>), Some(40), Some(2)),
                        Unit(Some(<<"Garen">>), Some(30), Some(2)),
                        Unit(Some(<<"Zed">>), Some(20), Some(1))>>)]

\* Round 2-2 with per-field defects: a board piece without a name, a damage
\* record without a level, a player object without any property.
Stage22 ==
    [EmptyStage EXCEPT
       !.round_type = Some([stage |-> Some("2-2"), type |-> None]),
       !.me = Some([health |-> None, gold |-> None, level |-> None]),
       !.board_pieces = Some(<<Piece(None, Some(<<"1">>), None, None, None)>>),
       !.units = Some(<<Unit(Some(TFT16_Lux), Some(10), None)>>)]

\* A stage whose only content is a damage record without a name.
StageNoName ==
    [EmptyStage EXCEPT !.units = Some(<<Unit(None, Some(10), Some(1))>>)]

StageUniverse ==
    {EmptyStage, NullStage, Stage11, Stage21, Stage32, Stage22, StageNoName}

StageArrays == UNION {[1..n -> StageUniverse] : n \in 0..MaxStages}

\* stage_data values that do not decode to an array.
MalformedStageData ==
    {Undefined, Null, JNum(5), EmptyStage,
     JStr(<<Word("not json")>>),
     JStr(<<>>),
     JStr(<<LBracket, ValueText(EmptyStage)>>),
     JStr(JSONstringify(EmptyStage)),
     JStr(JSONstringify(JNum(5))),
     JStr(JSONstringify(Null))}

StageDataChoices ==
    {JArr(a) : a \in StageArrays}
      \cup {JStr(JSONstringify(JArr(a))) : a \in StageArrays}
      \cup MalformedStageData

Envelope(stage_data) ==
    [t |-> "object", server |-> Some("EUW1"), summoner_name |-> Some("ThaoK3"),
     portal |-> None, summoner_tier |-> Some("GOLD"), tft_set_core_name |-> None,
     stage_data |-> stage_data]

\* What fetchTrackerData can resolve to: JSON.parse of the downloaded text.
TrackerDataChoices == {Null} \cup {Envelope(sd) : sd \in StageDataChoices}

ModeChoices == {Undefined, Null, JStr("summary"), JStr("complete"), JStr("full")}

MatchIdChoices == {<<"EUW", "1", "_", "111">>, <<"EUW", "1", "_", "222">>}

\* What fetchMetaTFTProfile can resolve to: JSON.parse of the response body.
ProfileChoices ==
    {Null,
     [app_matches |-> None],
     [app_matches |-> Some(<<>>)],
     [app_matches |-> Some(<<[uuid |-> "uuid-1", match_id_ow |-> <<"111">>]>>)]}

----------------------------------------------------------------------------
(* The invocation as a state machine.                                      *)

NoValue == [t |-> "none"]

\* No pair of concurrent invocations, no download, no LP history and no
\* server start-up is under way.
CallsIdle == calls = NoValue
FetchIdle == s3Response = NoValue /\ fetched = NoValue
LPIdle == riot = <<>> /\ historyFile = None /\ lpReply = NoValue
ServerIdle == cli = NoValue /\ serverArgs = NoValue /\ toolReply = NoValue

NothingElseRuns == CallsIdle /\ FetchIdle /\ LPIdle /\ ServerIdle

\* One invocation of handleTftMatchTracker is about to be made; the caches
\* are as initializeDataDragon left them.
TrackerIdle ==
    /\ pc = "idle"
    /\ params = NoValue
    /\ \/ championsCache = EmptyCache /\ itemsCache = EmptyCache
       \/ championsCache = LoadedChampions /\ itemsCache = LoadedItems
    /\ appMatch = NoValue
    /\ profile = NoValue
    /\ trackerData = NoValue
    /\ result = NoValue
    /\ earlier = <<>>

Init ==
    /\ TrackerIdle
    /\ NothingElseRuns

\* matchId.replace(/^[A-Z]+\d*_/, "")
UpperTokens == {"EUW", "NA", "KR"}
MatchNumber(matchId) ==
    IF Len(matchId) >= 2 /\ matchId[1] \in UpperTokens /\ matchId[2] = "_"
    THEN SubSeq(matchId, 3, Len(matchId))
    ELSE IF /\ Len(matchId) >= 3
            /\ matchId[1] \in UpperTokens
            /\ matchId[2] \in DigitTokens
            /\ matchId[3] = "_"
    THEN SubSeq(matchId, 4, Len(matchId))
    ELSE matchId

\* A lookup that takes the most recent entry whatever its match_id_ow.
FindAppMatchTakesFirst(app_matches, matchNumber, i) ==
    IF Len(app_matches) > 0 THEN 1 ELSE 0

\* profile.app_matches.find(m => m.match_id_ow === matchNumber): index or 0.
RECURSIVE FindAppMatch(_, _, _)
FindAppMatch(app_matches, matchNumber, i) ==
    IF i > Len(app_matches) THEN 0
    ELSE IF app_matches[i].match_id_ow = matchNumber THEN i
    ELSE FindAppMatch(app_matches, matchNumber, i + 1)

\* The call: the parameters are read and fetchMetaTFTProfile is awaited.
Invoke ==
    /\ pc = "idle"
    /\ \E matchId \in MatchIdChoices, mode \in ModeChoices :
          params' = [matchId |-> matchId, mode |-> mode]
    /\ pc' = "awaitProfile"
    /\ UNCHANGED <<championsCache, itemsCache, appMatch, profile, trackerData, result,
                   earlier>>
    /\ UNCHANGED <<calls, fetchVars, lpVars, serverVars>>

\* fetchMetaTFTProfile rejects (network failure, response not ok).
ProfileRejects ==
    /\ pc = "awaitProfile"
    /\ result' = ErrorResult("MetaTFT API error")
    /\ pc' = "done"
    /\ UNCHANGED <<params, championsCache, itemsCache, appMatch, profile, trackerData,
                   earlier>>
    /\ UNCHANGED <<calls, fetchVars, lpVars, serverVars>>

\* Lines 403-442 once fetchMetaTFTProfile has resolved to p: where the
\* invocation goes on (pc), the app match it found and what it returned.
AfterProfile(p, matchId) ==
    LET found == IF p # Null /\ IsSome(p.app_matches)
                 THEN FindAppMatch(Get(p.app_matches), MatchNumber(matchId), 1)
                 ELSE 0
    IN  IF p = Null
        THEN \* profile.app_matches reads a property of null
             [pc |-> "done", appMatch |-> NoValue, result |-> ErrorResult("TypeError")]
        ELSE IF ~IsSome(p.app_matches) \/ Len(Get(p.app_matches)) = 0
        THEN [pc |-> "done", appMatch |-> NoValue,
              result |-> [isError |-> TRUE,
                          body |-> [error |-> "No tracker data available",
                                    tip |-> "tracker not active"]]]
        ELSE IF found = 0
        THEN [pc |-> "done", appMatch |-> NoValue,
              result |-> [isError |-> TRUE,
                          body |-> [error |-> "No tracker data for match",
                                    reason |-> "tracker not active",
                                    availableMatches |->
                                      [i \in 1..Len(Get(p.app_matches)) |->
                                         Get(p.app_matches)[i].match_id_ow]]]]
        ELSE [pc |-> "awaitTracker", appMatch |-> Get(p.app_matches)[found],
              result |-> NoValue]

\* fetchMetaTFTProfile resolves: lines 405-442.
ProfileResolves ==
    /\ pc = "awaitProfile"
    /\ \E p \in ProfileChoices :
          /\ profile' = p
          /\ pc' = AfterProfile(p, params.matchId).pc
          /\ appMatch' = AfterProfile(p, params.matchId).appMatch
          /\ result' = AfterProfile(p, params.matchId).result
    /\ UNCHANGED <<params, championsCache, itemsCache, trackerData, earlier>>
    /\ UNCHANGED <<calls, fetchVars, lpVars, serverVars>>

\* fetchTrackerData rejects (response not ok, text that is no JSON).
TrackerRejects ==
    /\ pc = "awaitTracker"
    /\ result' = ErrorResult("S3 fetch error")
    /\ pc' = "done"
    /\ UNCHANGED <<params, championsCache, itemsCache, appMatch, profile, trackerData,
                   earlier>>
    /\ UNCHANGED <<calls, fetchVars, lpVars, serverVars>>

\* fetchTrackerData resolves and the pipeline runs to the return: lines 442-541.
\* The file of a tracker uuid is written once, when the match ends: a later
\* invocation that fetches it again receives the same text.
TrackerResolves ==
    /\ pc = "awaitTracker"
    /\ \E td \in IF earlier = <<>> THEN TrackerDataChoices ELSE {earlier[1].trackerData} :
          /\ trackerData' = td
          /\ result' = ProcessTrackerData(championsCache, itemsCache, params.matchId,
                                          appMatch.uuid, EffectiveMode(params.mode), td)
    /\ pc' = "done"
    /\ UNCHANGED <<params, championsCache, itemsCache, appMatch, profile, earlier>>
    /\ UNCHANGED <<calls, fetchVars, lpVars, serverVars>>

Next ==
    \/ Invoke
    \/ ProfileRejects
    \/ ProfileResolves
    \/ TrackerRejects
    \/ TrackerResolves

Spec == Init /\ [][Next]_vars

\* The handler is called a second time with the same arguments, after an
\* invocation that ran the pipeline has returned.  Nothing the first
\* invocation did is undone: the caches are module state and stay as they are.
Reinvoke ==
    /\ pc = "done"
    /\ earlier = <<>>
    /\ trackerData # NoValue
    /\ earlier' = <<[params |-> params, trackerData |-> trackerData, result |-> result]>>
    /\ pc' = "awaitProfile"
    /\ appMatch' = NoValue
    /\ profile' = NoValue
    /\ trackerData' = NoValue
    /\ result' = NoValue
    /\ UNCHANGED <<params, championsCache, itemsCache>>
    /\ UNCHANGED <<calls, fetchVars, lpVars, serverVars>>

RepeatNext ==
    \/ Next
    \/ Reinvoke

RepeatSpec == Init /\ [][RepeatNext]_vars

----------------------------------------------------------------------------
(* Two invocations of handleTftMatchTracker in flight at once.             *)
(*                                                                         *)
(* Node runs one continuation at a time: the invocations interleave at     *)
(* their two awaits and nowhere else.  calls[i] holds what invocation i    *)
(* keeps in its own consts and lets (matchId, mode, profile, appMatch,     *)
(* trackerData) and what it returned; the name caches are module state     *)
(* that both read.                                                         *)

\* A profile with the snapshots of two matches, most recent first.
TwoMatchProfile ==
    [app_matches |-> Some(<<[uuid |-> "uuid-2", match_id_ow |-> <<"222">>],
                            [uuid |-> "uuid-1", match_id_ow |-> <<"111">>]>>)]

ConcurrentProfiles == {TwoMatchProfile, [app_matches |-> Some(<<>>)]}

\* Tracker files: a decoded array, a JSON text, an array with a null element.
ConcurrentTrackerData ==
    {Envelope(JArr(<<Stage21>>)),
     Envelope(JStr(JSONstringify(JArr(<<Stage11, Stage32>>)))),
     Envelope(JArr(<<NullStage>>))}

ConcurrentModes == {Undefined, JStr("complete")}

NewCall ==
    [pc |-> "idle", params |-> NoValue, profile |-> NoValue, appMatch |-> NoValue,
     trackerData |-> NoValue, result |-> NoValue]

ConcurrentInit ==
    /\ TrackerIdle
    /\ calls = [i \in 1..2 |-> NewCall]
    /\ FetchIdle /\ LPIdle /\ ServerIdle

\* A `stages` array kept at module level and appended to: the invocation
\* that runs its pipeline second also sees the stages of the first.
CallReturnsSharedStages(c, i, td) ==
    LET other == c[3 - i].trackerData
        theirs == IF other # NoValue THEN ParseStageData(other.stage_data).a ELSE <<>>
        mine == ParseStageData(td.stage_data).a
    IN  ProcessTrackerData(championsCache, itemsCache, c[i].params.matchId,
                           c[i].appMatch.uuid, EffectiveMode(c[i].params.mode),
                           [td EXCEPT !.stage_data = JArr(theirs \o mine)])

\* Lines 442-541 for invocation i: the pipeline reads the invocation's own
\* matchId, mode and appMatch, the envelope td and the two caches.
CallReturns(c, i, td) ==
    ProcessTrackerData(championsCache, itemsCache, c[i].params.matchId,
                       c[i].appMatch.uuid, EffectiveMode(c[i].params.mode), td)

CallInvoke(i) ==
    /\ calls[i].pc = "idle"
    /\ \E matchId \in MatchIdChoices, mode \in ConcurrentModes :
          calls' = [calls EXCEPT ![i].params = [matchId |-> matchId, mode |-> mode],
                                 ![i].pc = "awaitProfile"]
    /\ UNCHANGED <<trackerVars, fetchVars, lpVars, serverVars>>

CallProfileRejects(i) ==
    /\ calls[i].pc = "awaitProfile"
    /\ calls' = [calls EXCEPT ![i].result = ErrorResult("MetaTFT API error"),
                              ![i].pc = "done"]
    /\ UNCHANGED <<trackerVars, fetchVars, lpVars, serverVars>>

CallProfileResolves(i) ==
    /\ calls[i].pc = "awaitProfile"
    /\ \E p \in ConcurrentProfiles :
          LET after == AfterProfile(p, calls[i].params.matchId)
          IN  calls' = [calls EXCEPT ![i].profile = p,
                                     ![i].pc = after.pc,
                                     ![i].appMatch = after.appMatch,
                                     ![i].result = after.result]
    /\ UNCHANGED <<trackerVars, fetchVars, lpVars, serverVars>>

CallTrackerRejects(i) ==
    /\ calls[i].pc = "awaitTracker"
    /\ calls' = [calls EXCEPT ![i].result = ErrorResult("S3 fetch error"),
                              ![i].pc = "done"]
    /\ UNCHANGED <<trackerVars, fetchVars, lpVars, serverVars>>

CallTrackerResolves(i) ==
    /\ calls[i].pc = "awaitTracker"
    /\ \E td \in ConcurrentTrackerData :
          calls' = [calls EXCEPT ![i].trackerData = td,
                                 ![i].result = CallReturns(calls, i, td),
                                 ![i].pc = "done"]
    /\ UNCHANGED <<trackerVars, fetchVars, lpVars, serverVars>>

ConcurrentNext ==
    \E i \in 1..2 :
        \/ CallInvoke(i)
        \/ CallProfileRejects(i)
        \/ CallProfileResolves(i)
        \/ CallTrackerRejects(i)
        \/ CallTrackerResolves(i)

ConcurrentSpec == ConcurrentInit /\ [][ConcurrentNext]_vars

----------------------------------------------------------------------------
(* fetchTrackerData (tracker.ts 148-176): the download of a tracker file.  *)
(*                                                                         *)
(* The storage holds a text, as it is or gzip-compressed.  A buffer is a   *)
(* sequence of bytes: [byte |-> c] is the UTF-8 encoding of the character  *)
(* c of a text, [gz |-> ...] a byte of the gzip framing.  The gzip member  *)
(* of a text is a header, the deflated text (here: the bytes in reverse    *)
(* order) and a trailer holding the length of the text.                    *)

ReverseBytes(b) == [i \in 1..Len(b) |-> b[Len(b) + 1 - i]]

Utf8Encode(text) == [i \in 1..Len(text) |-> [byte |-> text[i]]]

GzipHeader == [gz |-> "header"]
GzipTrailer(n) == [gz |-> "trailer", isize |-> n]

gzipSync(text) ==
    <<GzipHeader>> \o ReverseBytes(Utf8Encode(text)) \o <<GzipTrailer(Len(text))>>

\* A gzip member cut before its trailer.
TruncatedGzip(text) == <<GzipHeader>> \o ReverseBytes(Utf8Encode(text))

\* gunzipSync throws on a buffer that is no complete gzip member.
gunzipSyncThrows(buffer) ==
    ~(/\ Len(buffer) >= 2
      /\ buffer[1] = GzipHeader
      /\ buffer[Len(buffer)] = GzipTrailer(Len(buffer) - 2)
      /\ \A i \in 2..(Len(buffer) - 1) : "byte" \in DOMAIN buffer[i])

gunzipSync(buffer) == ReverseBytes(SubSeq(buffer, 2, Len(buffer) - 1))

\* buffer.toString("utf-8"): a byte that is no UTF-8 gives U+FFFD.
toStringUtf8(buffer) ==
    [i \in 1..Len(buffer) |->
        IF "byte" \in DOMAIN buffer[i] THEN buffer[i].byte ELSE Word("U+FFFD")]

\* Lines 165-173 without the catch: a buffer that is not gzip aborts.
DecodeBodyGzipOnly(buffer) ==
    IF gunzipSyncThrows(buffer)
    THEN [throws |-> TRUE, jsonStr |-> <<>>]
    ELSE [throws |-> FALSE, jsonStr |-> toStringUtf8(gunzipSync(buffer))]

\* Lines 165-173: gunzipSync in a try, the buffer as it is in the catch.
DecodeBody(buffer) ==
    IF gunzipSyncThrows(buffer)
    THEN [throws |-> FALSE, jsonStr |-> toStringUtf8(buffer)]
    ELSE [throws |-> FALSE, jsonStr |-> toStringUtf8(gunzipSync(buffer))]

\* Lines 162-175 on the body of an ok response.
ParseBody(buffer) ==
    LET decoded == DecodeBody(buffer)
    IN  IF decoded.throws THEN [pc |-> "done", throws |-> "Error"]
        ELSE IF JSONparseThrows(decoded.jsonStr) THEN [pc |-> "done", throws |-> "SyntaxError"]
        ELSE [pc |-> "done", returns |-> JSONparse(decoded.jsonStr)]

\* The texts a tracker file can hold: the JSON text of an envelope or of
\* null, an empty file, an error page, a JSON text cut short.
StoredTexts ==
    {<<ValueText(td)>> : td \in TrackerDataChoices}
    \cup {<<>>, <<Word("<html>")>>, <<LBracket, ValueText(Null)>>}

StoredEncodings == {"plain", "gzip", "truncated gzip"}

StoredBytes(text, encoding) ==
    CASE encoding = "plain" -> Utf8Encode(text)
      [] encoding = "gzip" -> gzipSync(text)
      [] encoding = "truncated gzip" -> TruncatedGzip(text)

\* `await fetch(url, ...)` resolves: the status and what the storage holds.
FetchResponds ==
    /\ s3Response = NoValue
    /\ \E ok \in BOOLEAN, text \in StoredTexts, encoding \in StoredEncodings :
          /\ s3Response' = [ok |-> ok, text |-> text, encoding |-> encoding,
                            body |-> StoredBytes(text, encoding)]
          /\ fetched' = IF ok THEN [pc |-> "awaitBody"]
                        ELSE [pc |-> "done", throws |-> "S3 fetch error"]
    /\ UNCHANGED <<trackerVars, calls, lpVars, serverVars>>

\* `await response.arrayBuffer()` resolves: decode and parse.
BodyArrives ==
    /\ fetched # NoValue
    /\ fetched.pc = "awaitBody"
    /\ fetched' = ParseBody(s3Response.body)
    /\ UNCHANGED <<s3Response, trackerVars, calls, lpVars, serverVars>>

FetchNext == FetchResponds \/ BodyArrives

FetchSpec == Init /\ [][FetchNext]_vars

----------------------------------------------------------------------------
(* LP history (handleTftLPHistory and its helpers).                        *)
(*                                                                         *)
(* riot is the list of the matches the player has played, oldest first:    *)
(* match n has the id n and riot[n] is the placement of the player in it,  *)
(* None when the participants of the match do not hold the player's puuid. *)
(* historyFile is the JSON file of the player: None when absent, else the  *)
(* entries it stores, oldest first.  An entry carries matchId, placement,  *)
(* lpBefore, lpAfter and lpChange; timestamp, tier, rank and lastUpdated   *)
(* are not modelled, writes to the file succeed, and the puuid is set      *)
(* (initializePUUID ends the process otherwise).                           *)

MaxMatches == 2

DefaultMatchCount == 10
RecentGames == 10
CorrectionWindow == 100

PlacementChoices == {Some(1), Some(5), None}
MatchCountChoices == {None, Some(1), Some(2)}
\* What fetchCurrentLP returns: null, or the LP scraped from the profile page.
CurrentLPChoices == {None, Some(10), Some(200)}
\* The match API answers, or fails on the list of ids, or on a match.
ApiChoices == {"ok", "ids fail", "match fails"}

Abs(x) == IF x < 0 THEN 0 - x ELSE x

estimateLPChange(placement) ==
    CASE placement = 1 -> 45
      [] placement = 2 -> 35
      [] placement = 3 -> 25
      [] placement = 4 -> 15
      [] placement = 5 -> 0 - 10
      [] placement = 6 -> 0 - 20
      [] placement = 7 -> 0 - 30
      [] placement = 8 -> 0 - 40
      [] OTHER -> 0

\* loadHistory() || { ..., entries: [] }
loadHistory(file) == IF IsSome(file) THEN Get(file) ELSE <<>>

\* GET .../matches/by-puuid/{puuid}/ids?count=N: the ids of the N most
\* recent matches, most recent first.
RecentMatchIds(matches, count) ==
    [i \in 1..(IF count < Len(matches) THEN count ELSE Len(matches)) |->
        Len(matches) + 1 - i]

ExistingMatchIds(entries) == {entries[i].matchId : i \in 1..Len(entries)}

\* Every id of the answer, recorded or not.
newMatchIdsUnfiltered(matchIds, entries) == matchIds

\* matchIds.filter(id => !existingMatchIds.has(id))
newMatchIds(matchIds, entries) ==
    SelectSeq(matchIds, LAMBDA id : id \notin ExistingMatchIds(entries))

reverse(ids) == [i \in 1..Len(ids) |-> ids[Len(ids) + 1 - i]]

\* The entry built at lines 175-184 after the entries so far.
NewEntry(entries, matchId, placement, lp) ==
    LET hasLast == entries # <<>>
        lastEntry == entries[Len(entries)]
        lpChangeEstimate == estimateLPChange(placement)
    IN  [matchId |-> matchId,
         placement |-> placement,
         lpBefore |-> IF hasLast THEN lastEntry.lpAfter ELSE lp,
         lpAfter |-> IF hasLast THEN lastEntry.lpAfter + lpChangeEstimate ELSE lp,
         lpChange |-> lpChangeEstimate]

\* The loop of lines 158-187 over ids: a match without the player is skipped.
RECURSIVE PushEntries(_, _, _, _)
PushEntries(entries, ids, matches, lp) ==
    IF ids = <<>> THEN entries
    ELSE IF ~IsSome(matches[Head(ids)]) THEN PushEntries(entries, Tail(ids), matches, lp)
    ELSE PushEntries(Append(entries, NewEntry(entries, Head(ids), Get(matches[Head(ids)]), lp)),
                     Tail(ids), matches, lp)

\* Lines 190-202: the last entry takes the actual LP when it is near.
CorrectLastEntry(entries, actualLP) ==
    IF entries = <<>> THEN entries
    ELSE LET lastEntry == entries[Len(entries)]
             diff == actualLP - lastEntry.lpAfter
         IN  IF Abs(diff) < CorrectionWindow
             THEN [entries EXCEPT ![Len(entries)] =
                      [lastEntry EXCEPT !.lpAfter = actualLP,
                                        !.lpChange = actualLP - lastEntry.lpBefore]]
             ELSE entries

\* updateLPHistory: what it throws, or the entries it returns.
updateLPHistory(entries, matchCount, matches, currentLP, api) ==
    LET matchIds == RecentMatchIds(matches, matchCount)
        new == newMatchIds(matchIds, entries)
    IN  IF api = "ids fail" THEN [throws |-> TRUE, entries |-> entries]
        ELSE IF ~IsSome(currentLP) THEN [throws |-> FALSE, entries |-> entries]
        ELSE IF new = <<>> THEN [throws |-> FALSE, entries |-> entries]
        ELSE IF api = "match fails" THEN [throws |-> TRUE, entries |-> entries]
        ELSE [throws |-> FALSE,
              entries |-> CorrectLastEntry(
                              PushEntries(entries, reverse(new), matches, Get(currentLP)),
                              Get(currentLP))]

RECURSIVE SumLPChange(_)
SumLPChange(entries) ==
    IF entries = <<>> THEN 0 ELSE Head(entries).lpChange + SumLPChange(Tail(entries))

\* calculateStats: the two figures kept here are the count and the LP sum.
calculateStats(entries) ==
    IF entries = <<>> THEN [totalGames |-> 0]
    ELSE [totalGames |-> Len(entries), totalLPChange |-> SumLPChange(entries)]

\* history.entries.slice(-10).reverse().map(...)
recentGames(entries) ==
    LET n == IF Len(entries) < RecentGames THEN Len(entries) ELSE RecentGames
    IN  [i \in 1..n |->
            LET e == entries[Len(entries) + 1 - i]
            IN  [matchId |-> e.matchId,
                 placement |-> e.placement,
                 lpChange |-> [plus |-> e.lpChange > 0, n |-> e.lpChange],
                 lp |-> e.lpAfter]]

EffectiveAction(action) == IF IsSome(action) THEN Get(action) ELSE "view"
EffectiveMatchCount(matchCount) ==
    IF IsSome(matchCount) THEN Get(matchCount) ELSE DefaultMatchCount

\* handleTftLPHistory: the file it leaves and the reply it returns.
handleTftLPHistory(file, matches, request) ==
    LET action == EffectiveAction(request.action)
        loaded == loadHistory(file)
        history == IF action = "reset" THEN <<>> ELSE loaded
        updates == action = "update" \/ (action = "view" /\ history = <<>>)
        updated == updateLPHistory(history, EffectiveMatchCount(request.matchCount),
                                   matches, request.currentLP, request.api)
        entries == IF updates THEN updated.entries ELSE history
    IN  IF updates /\ updated.throws
        THEN [file |-> file,
              reply |-> [action |-> action, isError |-> TRUE,
                         body |-> [error |-> "Failed to fetch"]]]
        ELSE [file |-> IF updates THEN Some(entries) ELSE file,
              reply |-> [action |-> action, isError |-> FALSE,
                         body |-> [currentRank |-> request.currentLP,
                                   stats |-> calculateStats(entries),
                                   recentGames |-> recentGames(entries)]]]

LPRequests(actions) ==
    [action : actions, matchCount : MatchCountChoices,
     currentLP : CurrentLPChoices, api : ApiChoices]

\* The player finishes one more match.
PlayMatch ==
    /\ Len(riot) < MaxMatches
    /\ \E placement \in PlacementChoices : riot' = Append(riot, placement)
    /\ UNCHANGED <<historyFile, lpReply, trackerVars, calls, fetchVars, serverVars>>

CallLPHistory(actions) ==
    /\ \E request \in LPRequests(actions) :
          /\ historyFile' = handleTftLPHistory(historyFile, riot, request).file
          /\ lpReply' = handleTftLPHistory(historyFile, riot, request).reply
    /\ UNCHANGED <<riot, trackerVars, calls, fetchVars, serverVars>>

LPView == CallLPHistory({None, Some("view")})
LPUpdate == CallLPHistory({Some("update")})
LPReset == CallLPHistory({Some("reset")})

LPInit == Init /\ championsCache = LoadedChampions

LPNext == PlayMatch \/ LPView \/ LPUpdate \/ LPReset

LPSpec == LPInit /\ [][LPNext]_vars

----------------------------------------------------------------------------
(* Server start-up and tool dispatch (index.ts, constants.ts, tools/index). *)
(*                                                                         *)
(* cli is the command line: the tag line and the --region option (yargs    *)
(* accepts only the four valid regions for it).  serverArgs is what        *)
(* getArgs returned and setArgs kept, with the progress of runServer;      *)
(* toolReply is the reply to the last request.                             *)

VALID_REGIONS == {"americas", "europe", "asia", "sea"}

\* tagLine.toLowerCase() for the tag lines of the model.
TagLower(tagLine) ==
    CASE tagLine \in {"EUW", "euw"} -> "euw"
      [] tagLine \in {"EUNE", "eune"} -> "eune"
      [] tagLine \in {"NA", "na"} -> "na"
      [] tagLine \in {"NA1", "na1"} -> "na1"
      [] tagLine \in {"KR", "kr"} -> "kr"
      [] tagLine \in {"JP", "jp"} -> "jp"
      [] tagLine \in {"OCE", "oce"} -> "oce"
      [] tagLine \in {"BR", "br"} -> "br"
      [] tagLine \in {"TR", "tr"} -> "tr"
      [] tagLine \in {"RU", "ru"} -> "ru"
      [] tagLine \in {"SG", "sg"} -> "sg"
      [] tagLine \in {"OC1", "oc1"} -> "oc1"
      [] OTHER -> tagLine

\* REGION_MAPPING[key]: None where the object has no such key.
REGION_MAPPING(key) ==
    CASE key \in {"na", "na1", "br", "br1", "lan", "las", "oce"} -> Some("americas")
      [] key \in {"euw", "euw1", "eune", "eun1", "tr", "tr1", "ru"} -> Some("europe")
      [] key \in {"kr", "jp", "jp1"} -> Some("asia")
      [] key \in {"sea", "sg", "ph", "tw", "vn", "th"} -> Some("sea")
      [] OTHER -> None

\* PLATFORM_MAPPING[key]: None where the object has no such key.
PLATFORM_MAPPING(key) ==
    CASE key \in {"euw", "euw1"} -> Some("euw1")
      [] key \in {"eune", "eun1"} -> Some("eun1")
      [] key \in {"tr", "tr1"} -> Some("tr1")
      [] key = "ru" -> Some("ru")
      [] key \in {"na", "na1"} -> Some("na1")
      [] key \in {"br", "br1"} -> Some("br1")
      [] key \in {"lan", "la1"} -> Some("la1")
      [] key \in {"las", "la2"} -> Some("la2")
      [] key \in {"oce", "oc1"} -> Some("oc1")
      [] key = "kr" -> Some("kr")
      [] key \in {"jp", "jp1"} -> Some("jp1")
      [] key = "sg" -> Some("sg2")
      [] key = "ph" -> Some("ph2")
      [] key = "tw" -> Some("tw2")
      [] key = "vn" -> Some("vn2")
      [] key = "th" -> Some("th2")
      [] OTHER -> None

\* detectRegion: None stands for null.
detectRegion(tagLine, explicitRegion) ==
    IF IsSome(explicitRegion) /\ Get(explicitRegion) \in VALID_REGIONS THEN explicitRegion
    ELSE REGION_MAPPING(TagLower(tagLine))

detectPlatform(tagLine) ==
    IF IsSome(PLATFORM_MAPPING(TagLower(tagLine)))
    THEN Get(PLATFORM_MAPPING(TagLower(tagLine)))
    ELSE "euw1"

\* The region-detection table of the README.
ReadmeTagLines == {"EUW", "EUNE", "NA", "NA1", "KR", "JP", "OCE", "BR", "TR", "RU"}
ReadmeRegion(tagLine) ==
    CASE tagLine \in {"EUW", "EUNE", "TR", "RU"} -> "europe"
      [] tagLine \in {"NA", "NA1", "BR"} -> "americas"
      [] tagLine \in {"KR", "JP"} -> "asia"
      [] tagLine = "OCE" -> "sea"
ReadmePlatform(tagLine) ==
    CASE tagLine = "EUW" -> "euw1"
      [] tagLine = "EUNE" -> "eun1"
      [] tagLine \in {"NA", "NA1"} -> "na1"
      [] tagLine = "KR" -> "kr"
      [] tagLine = "JP" -> "jp1"
      [] tagLine = "OCE" -> "oc1"
      [] tagLine = "BR" -> "br1"
      [] tagLine = "TR" -> "tr1"
      [] tagLine = "RU" -> "ru"

\* Tag lines given on the command line: those of the README, some of them
\* in lower case, others the mappings know, and custom ones.
TagLineChoices ==
    ReadmeTagLines \cup {"euw", "oce", "na1", "SG", "OC1", "1234", "FR"}

CommandLines == [tagLine : TagLineChoices, region : {None} \cup {Some(r) : r \in VALID_REGIONS}]

\* The names of TFT_TOOLS, in the order of the array.
TFT_TOOLS ==
    <<"tft_match_history", "tft_match_details", "tft_match_summary", "tft_ranked_stats",
      "tft_meta_comps", "tft_meta_augments", "tft_meta_units", "tft_meta_items",
      "tft_meta_traits", "tft_unit_builds", "tft_current_patch", "tft_match_tracker",
      "tft_coaching", "tft_lp_history", "tft_compare_players">>

\* The switch of the CallTool handler: the handler a name is dispatched to,
\* None for the default branch.
HandlerOf(name) ==
    CASE name = "tft_match_history" -> Some("handleTftMatchHistory")
      [] name = "tft_match_details" -> Some("handleTftMatchDetails")
      [] name = "tft_match_summary" -> Some("handleTftMatchSummary")
      [] name = "tft_ranked_stats" -> Some("handleTftRankedStats")
      [] name = "tft_meta_comps" -> Some("handleTftMetaComps")
      [] name = "tft_meta_augments" -> Some("handleTftMetaAugments")
      [] name = "tft_meta_units" -> Some("handleTftMetaUnits")
      [] name = "tft_meta_items" -> Some("handleTftMetaItems")
      [] name = "tft_meta_traits" -> Some("handleTftMetaTraits")
      [] name = "tft_unit_builds" -> Some("handleTftUnitBuilds")
      [] name = "tft_current_patch" -> Some("handleTftCurrentPatch")
      [] name = "tft_match_tracker" -> Some("handleTftMatchTracker")
      [] name = "tft_coaching" -> Some("handleTftCoaching")
      [] OTHER -> None

\* Names a client can ask for: the advertised ones and one nobody advertises.
ToolNameChoices == {TFT_TOOLS[i] : i \in 1..Len(TFT_TOOLS)} \cup {"tft_nothing"}

\* The reply of the CallTool handler: what the handler returned, an error
\* text for what it threw, and the same error text for the McpError of the
\* default branch.
CallToolReply(name, handlerThrows) ==
    IF ~IsSome(HandlerOf(name))
    THEN [request |-> "tools/call", name |-> name, isError |-> TRUE,
          text |-> <<"Error: ", "Unknown tool: ", name>>]
    ELSE IF handlerThrows
    THEN [request |-> "tools/call", name |-> name, isError |-> TRUE,
          text |-> <<"Error: ", "thrown by ", Get(HandlerOf(name))>>]
    ELSE [request |-> "tools/call", name |-> name, isError |-> FALSE,
          text |-> <<"returned by ", Get(HandlerOf(name))>>]

ServerInit ==
    /\ TrackerIdle
    /\ championsCache = LoadedChampions
    /\ CallsIdle /\ FetchIdle /\ LPIdle
    /\ cli \in CommandLines
    /\ serverArgs = NoValue
    /\ toolReply = NoValue

\* getArgs and setArgs: the process exits when no region is detected.
ParseArgs ==
    /\ serverArgs = NoValue
    /\ serverArgs' =
          IF ~IsSome(detectRegion(cli.tagLine, cli.region))
          THEN [t |-> "exit", by |-> "getArgs"]
          ELSE [t |-> "args", connected |-> FALSE,
                region |-> Get(detectRegion(cli.tagLine, cli.region)),
                platform |-> detectPlatform(cli.tagLine)]
    /\ UNCHANGED <<cli, toolReply, trackerVars, calls, fetchVars, lpVars>>

\* initializePUUID and initializeDataDragon, then server.connect: a failed
\* account lookup ends the process.
Connect ==
    /\ serverArgs # NoValue
    /\ serverArgs.t = "args"
    /\ ~serverArgs.connected
    /\ \E puuidFound \in BOOLEAN :
          serverArgs' = IF puuidFound THEN [serverArgs EXCEPT !.connected = TRUE]
                        ELSE [t |-> "exit", by |-> "initializePUUID"]
    /\ UNCHANGED <<cli, toolReply, trackerVars, calls, fetchVars, lpVars>>

Connected == serverArgs # NoValue /\ serverArgs.t = "args" /\ serverArgs.connected

ListTools ==
    /\ Connected
    /\ toolReply' = [request |-> "tools/list", tools |-> TFT_TOOLS]
    /\ UNCHANGED <<cli, serverArgs, trackerVars, calls, fetchVars, lpVars>>

CallTool ==
    /\ Connected
    /\ \E name \in ToolNameChoices, handlerThrows \in BOOLEAN :
          toolReply' = CallToolReply(name, handlerThrows)
    /\ UNCHANGED <<cli, serverArgs, trackerVars, calls, fetchVars, lpVars>>

ServerNext == ParseArgs \/ Connect \/ ListTools \/ CallTool

ServerSpec == ServerInit /\ [][ServerNext]_vars

----------------------------------------------------------------------------
(* Notions shared by the properties.                                       *)

\* The pipeline ran: the tracker data arrived and the handler returned.
Processed == pc = "done" /\ trackerData # NoValue

\* The handler returned the assembled result.
Succeeded == Processed /\ ~result.isError

\* The mode after the default of the parameter destructuring.
Mode == EffectiveMode(params.mode)

\* The decoded stage array of the envelope (meaningful once Succeeded).
Stages == ParseStageData(trackerData.stage_data).a

\* The stage array the envelope carries, [] when it carries none.
CarriedStages ==
    IF trackerData = NoValue \/ trackerData.t # "object" THEN <<>>
    ELSE IF trackerData.stage_data.t = "array" THEN trackerData.stage_data.a
    ELSE IF trackerData.stage_data.t = "string"
            /\ ~JSONparseThrows(trackerData.stage_data.s)
            /\ JSONparse(trackerData.stage_data.s).t = "array"
    THEN JSONparse(trackerData.stage_data.s).a
    ELSE <<>>

\* The canonical label of stage i (1-based), "" when it has none.
KeyLabel(stages, i) ==
    IF stages[i].t = "object" /\ IsSome(stages[i].round_type)
       /\ IsSome(Get(stages[i].round_type).stage)
       /\ Get(Get(stages[i].round_type).stage) \in {"2-1", "3-2", "4-2", "5-1", "6-1"}
    THEN Get(Get(stages[i].round_type).stage)
    ELSE ""

\* 0-based indices of the first occurrence of each canonical label, ascending.
FirstOccurrences(stages) ==
    LET IsFirst(k) == /\ KeyLabel(stages, k + 1) # ""
                      /\ \A j \in 1..k : KeyLabel(stages, j) # KeyLabel(stages, k + 1)
    IN  SelectSeq([i \in 1..Len(stages) |-> i - 1], IsFirst)

\* The selection the key-stage rules describe: the first occurrences, then the
\* final index (length - 1) unless it is the last of them.
ExpectedKeyStages(stages) ==
    LET firsts == FirstOccurrences(stages)
    IN  IF firsts # <<>> /\ firsts[Len(firsts)] = Len(stages) - 1 THEN firsts
        ELSE Append(firsts, Len(stages) - 1)

NoNullStage(stages) == \A i \in 1..Len(stages) : stages[i].t = "object"

----------------------------------------------------------------------------
(* Properties.                                                             *)

\* C1: for every stage sequence findKeyProgressionStages returns the indices
\* of the first occurrence of each canonical label that occurs, in scan order
\* (repeats ignored), followed by the final index when it is not already the
\* last selected one.
C1_KeyStagesAreFirstOccurrences ==
    (Processed /\ NoNullStage(CarriedStages))
        => findKeyProgressionStages(CarriedStages) = ExpectedKeyStages(CarriedStages)

\* A summary run over three stages labelled "2-1", "2-1" and no key label: the
\* repeat is skipped and the final index is appended.
C1_Witness ==
    /\ Succeeded
    /\ Mode = JStr("summary")
    /\ Len(Stages) = 3
    /\ KeyLabel(Stages, 1) = "2-1"
    /\ KeyLabel(Stages, 2) = "2-1"
    /\ KeyLabel(Stages, 3) = ""
    /\ findKeyProgressionStages(Stages) = <<0, 2>>
    /\ Len(result.body.stageProgression) = 2

\* C2: in summary mode roundProgression holds one compact entry per stage in
\* stage order, and stageProgression holds the detailed snapshots of exactly
\* the key-stage indices, in that order.
C2_SummaryShape ==
    (Succeeded /\ Mode = JStr("summary")) =>
        LET body == result.body
            keys == ExpectedKeyStages(Stages)
        IN  /\ IsSome(body.roundProgression)
            /\ Len(Get(body.roundProgression)) = Len(Stages)
            /\ \A i \in 1..Len(Stages) :
                  /\ Get(body.roundProgression)[i].round = i
                  /\ Get(body.roundProgression)[i].stage = StageInfo(Stages[i])
            /\ Len(body.stageProgression) = Len(keys)
            /\ \A i \in 1..Len(keys) :
                  body.stageProgression[i] =
                      formatStageData(championsCache, itemsCache, Stages, keys[i])

\* A summary run in which one of three stages has no detailed snapshot.
C2_Witness ==
    /\ Succeeded
    /\ Mode = JStr("summary")
    /\ Len(Stages) = 3
    /\ Len(Get(result.body.roundProgression)) = 3
    /\ Len(result.body.stageProgression) = 2
    /\ result.body.stageProgression[1].stageNumber = 2

\* C3: in complete mode stageProgression holds one detailed snapshot per
\* stage, the i-th with stageNumber i, and roundProgression is absent.
C3_CompleteShape ==
    (Succeeded /\ Mode = JStr("complete")) =>
        LET body == result.body
        IN  /\ Len(body.stageProgression) = Len(Stages)
            /\ \A i \in 1..Len(Stages) :
                  /\ body.stageProgression[i].t = "object"
                  /\ body.stageProgression[i].stageNumber = i
                  /\ body.stageProgression[i].stage = StageInfo(Stages[i])
            /\ ~IsSome(body.roundProgression)

\* A complete run over three stages none of which is a key stage but the last.
C3_Witness ==
    /\ Succeeded
    /\ Mode = JStr("complete")
    /\ Len(Stages) = 3
    /\ Len(ExpectedKeyStages(Stages)) = 1
    /\ Len(result.body.stageProgression) = 3

\* C4: an absent or invalid mode gives the result of mode "summary".
C4_InvalidModeIsSummary ==
    (Processed /\ params.mode \notin {JStr("summary"), JStr("complete")}) =>
        result = ProcessTrackerData(championsCache, itemsCache, params.matchId,
                                    appMatch.uuid, JStr("summary"), trackerData)

\* C5: a stage_data that does not decode to an array gives isError = true
\* and a body that is a single error object, with no part of the timeline.
C5_MalformedStageDataIsError ==
    (Processed /\ trackerData.t = "object"
       /\ trackerData.stage_data \in MalformedStageData) =>
        /\ result.isError
        /\ DOMAIN result.body = {"error"}

\* The envelope carries a string that is no JSON and the handler reports it.
C5_Witness ==
    /\ Processed
    /\ trackerData.t = "object"
    /\ trackerData.stage_data = JStr(<<Word("not json")>>)
    /\ result.isError

\* The envelope's stage_data decodes to an array.
CarriesArray ==
    /\ trackerData # NoValue
    /\ trackerData.t = "object"
    /\ \/ trackerData.stage_data.t = "array"
       \/ /\ trackerData.stage_data.t = "string"
          /\ ~JSONparseThrows(trackerData.stage_data.s)
          /\ JSONparse(trackerData.stage_data.s).t = "array"

\* C6: once stage_data is an array, no defect inside a stage record aborts
\* the pipeline.
C6_NoStageDefectAborts ==
    (Processed /\ CarriesArray) => ~result.isError

\* A stage object none of whose board, bench, damage and shop entries lacks
\* its name.
NamesPresent(stage) ==
    /\ stage.t = "object"
    /\ IsSome(stage.board_pieces) => ~NamelessIn(Get(stage.board_pieces))
    /\ IsSome(stage.bench_pieces) => ~NamelessIn(Get(stage.bench_pieces))
    /\ IsSome(stage.units) => ~NamelessIn(SelectSeq(Get(stage.units), PositiveDamage))
    /\ IsSome(stage.shop_pieces) => ~NamelessIn(Get(stage.shop_pieces))

\* The stage a non-null detailed snapshot was built from.
StageOf(snapshot) == Stages[snapshot.stageNumber]

C8_NumericFieldsDefaultToZero ==
    Succeeded =>
        /\ ~result.body.summary.startingHealth.nan
        /\ ~result.body.summary.finalHealth.nan
        /\ ~result.body.summary.finalGold.nan
        /\ \A i \in 1..Len(result.body.stageProgression) :
              LET snapshot == result.body.stageProgression[i]
              IN  (snapshot.t = "object" /\ IsSome(snapshot.player)) =>
                     /\ Get(snapshot.player).health \in Int
                     /\ Get(snapshot.player).gold \in Int

\* C9: stage_data given as a decoded array and given as the JSON text of the
\* same array lead to the same result.
C9_DecoderEquivalence ==
    (Processed /\ trackerData.t = "object" /\ trackerData.stage_data.t = "array") =>
        result = ProcessTrackerData(
                    championsCache, itemsCache, params.matchId, appMatch.uuid, Mode,
                    [trackerData EXCEPT !.stage_data = JStr(JSONstringify(@))])

\* A decoded array of two stage records was processed into a timeline.
C9_Witness ==
    /\ Succeeded
    /\ trackerData.stage_data.t = "array"
    /\ Len(trackerData.stage_data.a) = 2
    /\ result.body.totalRounds = 2

\* The damage records that count, over all stages, in fold order.
PositiveUnits == SelectSeq(AllUnits(Stages), PositiveDamage)

RECURSIVE SumDamage(_)
SumDamage(units) ==
    IF units = <<>> THEN 0 ELSE Get(Head(units).damage) + SumDamage(Tail(units))

FirstEncounter(name) ==
    CHOOSE k \in 1..Len(PositiveUnits) :
        /\ getChampionNameStr(championsCache, Get(PositiveUnits[k].name)) = name
        /\ \A j \in 1..(k - 1) :
              getChampionNameStr(championsCache, Get(PositiveUnits[j].name)) # name

C12_AvgIsExactQuotient ==
    Succeeded =>
        LET ranking == calculateCarryStats(championsCache, Stages)
        IN  \A i \in 1..Len(ranking) :
              ranking[i].avgDamage * ranking[i].roundsPlayed = ranking[i].totalDamage

\* C12 as amended: avgDamage is totalDamage / roundsPlayed rounded to the
\* nearest integer, a half rounding up; it is the quotient itself when the
\* division is exact.
C12_AvgIsRoundedQuotient ==
    Succeeded =>
        LET ranking == calculateCarryStats(championsCache, Stages)
        IN  \A i \in 1..Len(ranking) :
              LET avg == ranking[i].avgDamage
                  count == ranking[i].roundsPlayed
                  total == ranking[i].totalDamage
              IN  /\ count > 0
                  /\ 2 * avg * count - count <= 2 * total
                  /\ 2 * total < 2 * avg * count + count

\* Ahri dealt 100 and 51 in the two records of one stage: 151 / 2 = 75.5 is
\* reported as 76.
C12_Witness ==
    /\ Succeeded
    /\ Stages = <<Stage21>>
    /\ result.body.topCarries[1].totalDamage = 151
    /\ result.body.topCarries[1].roundsPlayed = 2
    /\ result.body.topCarries[1].avgDamage = 76

\* C13: in both modes topCarries is the first min(5, n) entries of the
\* ranking of n units, in ranking order: no unit left out has a greater
\* total damage than a unit kept.
C13_TopCarriesAreFirstFive ==
    (Succeeded /\ Mode \in {JStr("summary"), JStr("complete")}) =>
        LET ranking == calculateCarryStats(championsCache, Stages)
            top == result.body.topCarries
        IN  /\ Len(top) = IF Len(ranking) < 5 THEN Len(ranking) ELSE 5
            /\ \A i \in 1..Len(top) : top[i] = ranking[i]
            /\ \A i \in 1..Len(top) : \A j \in (Len(top) + 1)..Len(ranking) :
                  ranking[j].totalDamage <= top[i].totalDamage

\* Six units dealt damage in a complete run: the sixth, Zed with 20, is left
\* out.
C13_Witness ==
    /\ Succeeded
    /\ Mode = JStr("complete")
    /\ Len(calculateCarryStats(championsCache, Stages)) = 6
    /\ Len(result.body.topCarries) = 5
    /\ result.body.topCarries[5].champion = <<"Garen">>
    /\ \A i \in 1..5 : result.body.topCarries[i].champion # <<"Zed">>

\* The sum of F over the first n stages.
RECURSIVE SumOverStages(_, _)
SumOverStages(F(_), n) ==
    IF n = 0 THEN 0 ELSE SumOverStages(F, n - 1) + F(Stages[n])

RerollsOf(stage) == IF stage.rerolls = None THEN 0 ELSE stage.rerolls[1]
GoldEarnedOf(stage) == IF stage.gold_earned = None THEN 0 ELSE stage.gold_earned[1]

\* C14: in summary and in complete mode summary.totalRerolls is the sum of the
\* stages' rerolls and summary.totalIncome the sum of the stages' gold_earned,
\* a stage without the field adding 0.
C14_EconomyTotalsAreSums ==
    (Succeeded /\ Mode \in {JStr("summary"), JStr("complete")}) =>
        /\ result.body.summary.totalRerolls = SumOverStages(RerollsOf, Len(Stages))
        /\ result.body.summary.totalIncome = SumOverStages(GoldEarnedOf, Len(Stages))

\* A complete run over two stages with 2 rerolls and 5 gold each and one
\* with 1 reroll and no gold_earned field: 5 rerolls, 10 gold.
C14_Witness ==
    /\ Succeeded
    /\ Mode = JStr("complete")
    /\ Stages = <<Stage21, Stage21, Stage32>>
    /\ Stage32.gold_earned = None
    /\ result.body.summary.totalRerolls = 5
    /\ result.body.summary.totalIncome = 10

\* C15: in every compact per-round entry the income field is present only
\* when the stage carries a non-zero gold_earned and the rerolls field only
\* when it carries a non-zero rerolls.
C15_ZeroIncomeAndRerollsOmitted ==
    (Succeeded /\ IsSome(result.body.roundProgression)) =>
        LET rp == Get(result.body.roundProgression)
        IN  \A i \in 1..Len(rp) :
              /\ IsSome(rp[i].income) => GoldEarnedOf(Stages[i]) # 0
              /\ IsSome(rp[i].rerolls) => RerollsOf(Stages[i]) # 0

\* C16: in both modes finalBoard lists the board pieces of the last stage of
\* the sequence, and of no other, in their key order, each with its resolved
\* champion name, its star level and its resolved items; it is empty when
\* the last stage has no board pieces and when the sequence is empty.
C16_FinalBoardIsLastStageBoard ==
    (Succeeded /\ Mode \in {JStr("summary"), JStr("complete")}) =>
        LET n == Len(Stages)
            fb == result.body.finalBoard
        IN  IF n = 0 \/ Stages[n].board_pieces = None THEN fb = <<>>
            ELSE
              LET pieces == Stages[n].board_pieces[1]
              IN  /\ Len(fb) = Len(pieces)
                  /\ \A i \in 1..Len(pieces) :
                        /\ fb[i].champion =
                              getChampionNameStr(championsCache, pieces[i].name[1])
                        /\ fb[i].stars = NumOr(parseInt(pieces[i].level), 1)
                        /\ Len(fb[i].items) = Len(extractItems(pieces[i]))
                        /\ \A k \in 1..Len(fb[i].items) :
                              fb[i].items[k] =
                                  getItemName(itemsCache, extractItems(pieces[i])[k])

\* The last of two stages has two pieces, the first another one: finalBoard
\* holds the two, the first at two stars with its two items.
C16_Witness ==
    /\ Succeeded
    /\ Mode = JStr("summary")
    /\ championsCache = LoadedChampions
    /\ Stages = <<Stage32, Stage21>>
    /\ Len(result.body.finalBoard) = 2
    /\ result.body.finalBoard[1] =
          [champion |-> <<"Ahri">>, stars |-> 2,
           items |-> << <<"Guinsoo's", " ", "Rageblade">>, <<"Bow">> >>]
    /\ result.body.finalBoard[2] = [champion |-> <<"Ahri">>, stars |-> 1, items |-> <<>>]

\* C17: for every stage sequence the list returned by
\* findKeyProgressionStages is strictly ascending, hence without an index
\* twice.
C17_KeyStagesStrictlyAscending ==
    (Processed /\ NoNullStage(CarriedStages)) =>
        LET keyIndices == findKeyProgressionStages(CarriedStages)
        IN  /\ \A i \in 1..(Len(keyIndices) - 1) : keyIndices[i] < keyIndices[i + 1]
            /\ \A i, j \in 1..Len(keyIndices) : keyIndices[i] = keyIndices[j] => i = j

\* The last of three stages is itself the first "3-2": it is selected by the
\* scan and not pushed a second time.
C17_Witness ==
    /\ Succeeded
    /\ Mode = JStr("summary")
    /\ Len(Stages) = 3
    /\ KeyLabel(Stages, 1) = "2-1"
    /\ KeyLabel(Stages, 2) = ""
    /\ KeyLabel(Stages, 3) = "3-2"
    /\ findKeyProgressionStages(Stages) = <<0, 2>>
    /\ result.body.stageProgression[2].stageNumber = 3

\* The requested match id without its region prefix: the ids of the inputs
\* are a region, a digit, an underscore and the number.
RequestedNumber == <<params.matchId[Len(params.matchId)]>>

\* The profile has arrived and holds no snapshot of the requested match.
NoSnapshot ==
    /\ profile # NoValue
    /\ profile # Null
    /\ \/ profile.app_matches = None
       \/ \A i \in 1..Len(profile.app_matches[1]) :
             profile.app_matches[1][i].match_id_ow # RequestedNumber

\* C18: when the profile has no app_matches, or none whose match_id_ow is the
\* requested id without its region prefix, the handler has returned
\* isError = true without fetching the tracker data and without processing
\* any stage.
C18_NoSnapshotIsErrorWithoutPipeline ==
    NoSnapshot =>
        /\ pc = "done"
        /\ result.isError
        /\ appMatch = NoValue
        /\ trackerData = NoValue
        /\ DOMAIN result.body \cap {"totalRounds", "stageProgression", "roundProgression"} = {}

\* Match 222 is requested and the profile holds a snapshot of match 111 only.
C18_Witness ==
    /\ pc = "done"
    /\ params.matchId = <<"EUW", "1", "_", "222">>
    /\ profile # NoValue
    /\ profile # Null
    /\ profile.app_matches = Some(<<[uuid |-> "uuid-1", match_id_ow |-> <<"111">>]>>)
    /\ result.isError
    /\ "availableMatches" \in DOMAIN result.body
    /\ result.body.availableMatches = << <<"111">> >>
    /\ trackerData = NoValue

\* The properties of the assembled result; roundProgression is the optional one.
AssembledFields ==
    {"matchId", "trackerUuid", "server", "summonerName", "mode", "portal", "rank",
     "set", "totalRounds", "summary", "topCarries", "finalBoard", "stageProgression",
     "roundProgression"}

FindAppMatchUuid(p, matchId) == AfterProfile(p, matchId).appMatch.uuid

AloneResult(i) ==
    IF calls[i].profile = NoValue THEN ErrorResult("MetaTFT API error")
    ELSE IF AfterProfile(calls[i].profile, calls[i].params.matchId).pc = "done"
    THEN AfterProfile(calls[i].profile, calls[i].params.matchId).result
    ELSE IF calls[i].trackerData = NoValue THEN ErrorResult("S3 fetch error")
    ELSE ProcessTrackerData(championsCache, itemsCache, calls[i].params.matchId,
                            FindAppMatchUuid(calls[i].profile, calls[i].params.matchId),
                            EffectiveMode(calls[i].params.mode), calls[i].trackerData)


ListOf(o) == IF IsSome(o) THEN Get(o) ELSE <<>>
SnapshotChampions(snap) ==
    IF snap.t = "null" THEN {}
    ELSE {ListOf(snap.board)[i].champion : i \in 1..Len(ListOf(snap.board))}
         \cup {ListOf(snap.bench)[i].champion : i \in 1..Len(ListOf(snap.bench))}
         \cup {ListOf(snap.unitDamage)[i].champion : i \in 1..Len(ListOf(snap.unitDamage))}
         \cup {ListOf(snap.shop)[i] : i \in 1..Len(ListOf(snap.shop))}
EmittedChampions(body) ==
    {body.finalBoard[i].champion : i \in 1..Len(body.finalBoard)}
    \cup {body.topCarries[i].champion : i \in 1..Len(body.topCarries)}
    \cup UNION {SnapshotChampions(body.stageProgression[i]) :
                    i \in 1..Len(body.stageProgression)}
BoardItems(board) == UNION {{board[i].items[k] : k \in 1..Len(board[i].items)} : i \in 1..Len(board)}
EmittedItems(body) ==
    BoardItems(body.finalBoard)
    \cup UNION {IF body.stageProgression[i].t = "null" THEN {}
                ELSE BoardItems(ListOf(body.stageProgression[i].board)) :
                    i \in 1..Len(body.stageProgression)}

\* The resolved names of a list of input pieces, and of their items.
ResolvedChampions(pieces) ==
    [i \in 1..Len(pieces) |-> getChampionNameStr(championsCache, Get(pieces[i].name))]
ResolvedItems(piece) ==
    [k \in 1..Len(extractItems(piece)) |-> getItemName(itemsCache, extractItems(piece)[k])]
ChampionsOf(entries) == [i \in 1..Len(entries) |-> entries[i].champion]

\* C22 as stated: no name in a successful result is an identifier of the
\* input, with its `_` separators.
C22_NoRawIdentifierEmitted ==
    Succeeded =>
        \A name \in EmittedChampions(result.body) \cup EmittedItems(result.body) :
            \A k \in 1..Len(name) : name[k] # "_"

\* C22 (amended): every unit name and item name of a successful result is
\* what getChampionName or getItemName returns for the identifier at the same
\* place of the input; an identifier the resolver does not know is emitted
\* as the resolver returns it, unchanged.
C22_EmittedNamesAreResolverOutputs ==
    Succeeded =>
        /\ \A n \in 1..Len(result.body.stageProgression) :
              LET snap == result.body.stageProgression[n]
              IN  snap.t # "null" =>
                    LET stage == Stages[snap.stageNumber]
                    IN  /\ ChampionsOf(ListOf(snap.board))
                              = ResolvedChampions(ListOf(stage.board_pieces))
                        /\ \A i \in 1..Len(ListOf(snap.board)) :
                              ListOf(snap.board)[i].items
                                  = ResolvedItems(ListOf(stage.board_pieces)[i])
                        /\ ChampionsOf(ListOf(snap.bench))
                              = ResolvedChampions(ListOf(stage.bench_pieces))
                        /\ ListOf(snap.shop) = ResolvedChampions(ListOf(stage.shop_pieces))
                        /\ {ListOf(snap.unitDamage)[i].champion :
                                i \in 1..Len(ListOf(snap.unitDamage))}
                              = {getChampionNameStr(championsCache, Get(u.name)) :
                                   u \in {ListOf(stage.units)[i] :
                                            i \in {j \in 1..Len(ListOf(stage.units)) :
                                                     PositiveDamage(ListOf(stage.units)[j])}}}
        /\ ChampionsOf(result.body.finalBoard)
              = ResolvedChampions(IF Stages = <<>> \/ Stages[Len(Stages)].t = "null"
                                  THEN <<>>
                                  ELSE ListOf(Stages[Len(Stages)].board_pieces))
        /\ \A i \in 1..Len(result.body.finalBoard) :
              result.body.finalBoard[i].items
                  = ResolvedItems(ListOf(Stages[Len(Stages)].board_pieces)[i])
        /\ \A i \in 1..Len(result.body.topCarries) :
              \E n \in 1..Len(Stages) :
                 \E j \in 1..Len(ListOf(Stages[n].units)) :
                    /\ PositiveDamage(ListOf(Stages[n].units)[j])
                    /\ result.body.topCarries[i].champion
                          = getChampionNameStr(championsCache,
                                               Get(ListOf(Stages[n].units)[j].name))

\* With the names downloaded, round 3-2 is a snapshot of the result: its
\* board shows "Lux" for TFT16_Lux and its bench shows TFT_TrainingDummy as
\* it arrived.
C22_Witness ==
    /\ Succeeded
    /\ championsCache = LoadedChampions
    /\ \E n \in 1..Len(result.body.stageProgression) :
          LET snap == result.body.stageProgression[n]
          IN  /\ snap.t # "null"
              /\ Stages[snap.stageNumber] = Stage32
              /\ ChampionsOf(ListOf(snap.board)) = <<(<<"Lux">>)>>
              /\ ChampionsOf(ListOf(snap.bench)) = <<TFT_TrainingDummy>>
    /\ \E i \in 1..Len(result.body.topCarries) :
          result.body.topCarries[i].champion = <<"Miss", " ", "Fortune">>

\* C23: for an ok response, a text stored plain and the same text stored
\* gzip-compressed give the same outcome: the value JSON.parse returns for
\* the text, or the SyntaxError it throws; nothing else makes the fetch of
\* an ok response fail.
C23_PlainAndGzipSameEnvelope ==
    (/\ fetched # NoValue
     /\ fetched.pc = "done"
     /\ s3Response.ok
     /\ s3Response.encoding \in {"plain", "gzip"}) =>
        IF JSONparseThrows(s3Response.text)
        THEN fetched = [pc |-> "done", throws |-> "SyntaxError"]
        ELSE fetched = [pc |-> "done", returns |-> JSONparse(s3Response.text)]

\* A file stored without compression: gunzipSync threw, the fallback decoded
\* the bytes and the envelope was returned.
C23_Witness ==
    /\ fetched # NoValue
    /\ fetched.pc = "done"
    /\ s3Response.ok
    /\ s3Response.encoding = "plain"
    /\ gunzipSyncThrows(s3Response.body)
    /\ "returns" \in DOMAIN fetched
    /\ fetched.returns = Envelope(JStr(JSONstringify(JArr(<<Stage21>>))))

\* The entries the history file stores.
StoredEntries == loadHistory(historyFile)

\* C24: once a reset has returned, the history file holds no entry.
C24_ResetClearsStoredHistory ==
    (/\ lpReply # NoValue
     /\ ~lpReply.isError
     /\ lpReply.action = "reset") =>
        StoredEntries = <<>>

\* C28: every stored entry has lpChange = lpAfter - lpBefore.
C28_StoredChangeIsDifference ==
    \A i \in 1..Len(StoredEntries) :
        StoredEntries[i].lpChange = StoredEntries[i].lpAfter - StoredEntries[i].lpBefore

\* C29: no two stored entries have the same matchId, and an update repeated
\* on the same answers of the match API and of the LP page (no match played
\* in between) stores the entries the first one stored, nothing more.
C29_NoDuplicateMatchIds ==
    /\ \A i, j \in 1..Len(StoredEntries) :
          StoredEntries[i].matchId = StoredEntries[j].matchId => i = j
    /\ \A request \in LPRequests({Some("update")}) :
          LET first == handleTftLPHistory(historyFile, riot, request)
          IN  ~first.reply.isError =>
                handleTftLPHistory(first.file, riot, request).file = first.file

\* Two matches are recorded, each once, the older one by an earlier update:
\* its lpAfter is the LP of that time, the newer one starts from it and adds
\* the estimate of a first place.
C29_Witness ==
    /\ Len(riot) = 2
    /\ Len(StoredEntries) = 2
    /\ StoredEntries[1].matchId = 1
    /\ StoredEntries[2].matchId = 2
    /\ StoredEntries[1].lpAfter = 10
    /\ StoredEntries[2].lpBefore = 10
    /\ StoredEntries[2].lpAfter = 55
    /\ lpReply # NoValue
    /\ lpReply.action = "update"
    /\ ~lpReply.isError
    /\ lpReply.body.stats.totalGames = 2

\* C25: for a tag line of the README table and no --region, getArgs does
\* not end the process and the arguments it returns hold the region and the
\* platform of the table.
C25_ReadmeTableIsDetected ==
    (/\ serverArgs # NoValue
     /\ cli.tagLine \in ReadmeTagLines
     /\ cli.region = None) =>
        IF serverArgs.t = "exit" THEN serverArgs.by = "initializePUUID"
        ELSE /\ serverArgs.region = ReadmeRegion(cli.tagLine)
             /\ serverArgs.platform = ReadmePlatform(cli.tagLine)

\* C30: no call of an advertised tool is answered with "Unknown tool".
C30_AdvertisedToolsAreDispatched ==
    (/\ toolReply # NoValue
     /\ toolReply.request = "tools/call"
     /\ \E i \in 1..Len(TFT_TOOLS) : TFT_TOOLS[i] = toolReply.name) =>
        toolReply.text[2] # "Unknown tool: "

\* C26: in a summary result every index of findKeyProgressionStages is an
\* index of the stage array and every element of stageProgression is a
\* snapshot, not null.
C26_KeyIndicesAreValid ==
    (Succeeded /\ result.body.mode = JStr("summary")) =>
        /\ \A i \in 1..Len(findKeyProgressionStages(Stages)) :
              /\ findKeyProgressionStages(Stages)[i] >= 0
              /\ findKeyProgressionStages(Stages)[i] < Len(Stages)
        /\ \A n \in 1..Len(result.body.stageProgression) :
              result.body.stageProgression[n] # Null

\* What the handler returns in complete mode for the arguments and the
\* tracker file of the invocation.
CompleteResult ==
    ProcessTrackerData(championsCache, itemsCache, params.matchId, appMatch.uuid,
                       JStr("complete"), trackerData)

\* The fields of a result that do not depend on the mode.
ModeFreeFields(body) ==
    [f \in DOMAIN body \ {"mode", "stageProgression", "roundProgression"} |-> body[f]]

\* C27: where the handler returns a summary result, it returns a complete
\* result for the same input, every snapshot of the summary is the entry of
\* the complete stageProgression with its stageNumber, and the two results
\* agree on every field other than mode, stageProgression and
\* roundProgression.
C27_SummaryIsProjectionOfComplete ==
    (Succeeded /\ result.body.mode = JStr("summary")) =>
        /\ ~CompleteResult.isError
        /\ \A n \in 1..Len(result.body.stageProgression) :
              LET snap == result.body.stageProgression[n]
              IN  /\ snap # Null
                  /\ snap.stageNumber \in 1..Len(CompleteResult.body.stageProgression)
                  /\ CompleteResult.body.stageProgression[snap.stageNumber] = snap
        /\ ModeFreeFields(result.body) = ModeFreeFields(CompleteResult.body)

====
